---- MODULE Spec2Model ----
(***************************************************************************)
(* GEOSTORM: the multi-source hazard / environmental aggregation pipeline  *)
(* (services/liveData.ts, services/hazards.ts, services/fema.ts) and the   *)
(* React effects that apply its results (App.tsx, GlobeMap.tsx).           *)
(*                                                                         *)
(* Coordinates are integers in hundredths of a degree.                     *)
(***************************************************************************)
EXTENDS Integers, Sequences, FiniteSets, TLC

VARIABLES
    call,         \* the function called: an adapter or an aggregation
    feeds,        \* what each feed answers during the call
    mpc,          \* per adapter: "idle" | "fetching" | "fema" | "done"
    mres,         \* per adapter: the promise it returned, once settled
    hz,           \* fetchHazardEvents: hazards after its first try block
    agg,          \* the promise of the aggregation
    omet,         \* fetchOpenMeteoForPoints: its per-point requests and its promise
    sent,         \* per feed: the requests the call has sent to it
    enabled,      \* App: infraHazardsEnabled
    alive,        \* the component tree is mounted
    runs,         \* per component: the overlay effect runs that started a fetch
    shown,        \* GlobeMap: infraPoints; App: overlayData
    loading,      \* GlobeMap: infraLoading; App: overlayLoading
    error,        \* GlobeMap: infraError; App: overlayError (TRUE: a message)
    cycles,       \* App: the loadData cycles started
    disasters,    \* App: disasters, as the cycle whose result it holds
    environmentalData, \* App: environmentalData, likewise
    isLoading,    \* App: isLoading
    timer,        \* App: the 60 s interval is "active" | "cleared"
    fn,           \* the pure function applied
    arg,          \* its argument
    res,          \* its result, once applied
    clicked,      \* GlobeMap: where the last onPolygonClick left, <<>> before any
    pov,          \* GlobeMap: the last argument of globeEl.current.pointOfView
    selectedCountry, \* GlobeMap: selectedCountry, <<>> for null
    escaped,      \* an exception left a click handler
    polarInfo,    \* GlobeMap: polarInfo, <<>> for null
    reqs          \* GlobeMap: the polar weather requests, one per pole click

pipeVars == <<call, feeds, mpc, mres, hz, agg, omet, sent>>
effectVars == <<enabled, alive, runs, shown, loading, error>>
loadVars == <<cycles, disasters, environmentalData, isLoading, timer>>
pureVars == <<fn, arg, res>>
globeVars == <<clicked, pov, selectedCountry, escaped, polarInfo, reqs>>
vars == <<pipeVars, effectVars, loadVars, pureVars, globeVars>>

(***************************************************************************)
(* Bounds of the model.                                                    *)
(***************************************************************************)
MaxItems == 2          \* longest top-level array of a payload
MaxPoints == 2         \* most points handed to fetchOpenMeteoForPoints
MaxRuns == 3           \* most overlay fetch cycles a component starts
MaxCount == 1          \* most overlay points of one kind in a fetched overlay
MaxCycles == 3         \* most loadData cycles
MaxDepth == 3          \* deepest nesting of a coordinates value
MaxMagnitude == 60     \* largest magnitude of a feature, in tenths
MaxIntensity == 10     \* largest intensity of a hazard given to transformHazards
MaxVertices == 2       \* most vertices of a clicked polygon
MaxClicks == 3         \* most pole clicks

(***************************************************************************)
(* JSON values and JavaScript numbers, all of one record shape.            *)
(*   t = "undef" | "null" | "num" | "inf" | "nan" | "numstr" | "txt" | "arr"*)
(*   "numstr": the string holding the decimal numeral of n                 *)
(*   "txt": a non-numeric string of at least two characters                *)
(***************************************************************************)
J(t, n, a) == [t |-> t, n |-> n, a |-> a]
Undef == J("undef", 0, <<>>)
JNull == J("null", 0, <<>>)
NaN == J("nan", 0, <<>>)
Inf == J("inf", 0, <<>>)
Txt == J("txt", 0, <<>>)
Num(n) == J("num", n, <<>>)
NumStrV(n) == J("numstr", n, <<>>)
Arr(a) == J("arr", 0, a)

\* typeof v === 'number'
IsNumber(v) == v.t \in {"num", "inf", "nan"}

\* Array.isArray(v)
IsArray(v) == v.t = "arr"

\* JavaScript truthiness of v
Truthy(v) ==
    CASE v.t \in {"undef", "null", "nan"} -> FALSE
      [] v.t = "num" -> v.n # 0
      [] OTHER -> TRUE

\* isFinite(v) for a number v
IsFinite(v) == v.t = "num"

\* the decimal digits of n >= 0, most significant first
RECURSIVE Digits(_)
Digits(n) == IF n < 10 THEN <<n>> ELSE Append(Digits(n \div 10), n % 10)

DigitChar(d) == <<"0", "1", "2", "3", "4", "5", "6", "7", "8", "9">>[d + 1]

RECURSIVE DigitsStr(_)
DigitsStr(ds) == IF ds = <<>> THEN "" ELSE DigitChar(Head(ds)) \o DigitsStr(Tail(ds))

\* String(n) for an integer n
StringOf(n) == IF n < 0 THEN "-" \o DigitsStr(Digits(-n)) ELSE DigitsStr(Digits(n))

\* v[i] for a value v that is neither null nor undefined (i counts from 0)
Index(v, i) ==
    CASE v.t = "arr" -> IF i < Len(v.a) THEN v.a[i + 1] ELSE Undef
      [] v.t = "txt" -> Txt
      [] v.t = "numstr" ->
            IF v.n < 0
            THEN (IF i = 0 THEN Txt
                  ELSE IF i <= Len(Digits(-v.n)) THEN NumStrV(Digits(-v.n)[i]) ELSE Undef)
            ELSE (IF i < Len(Digits(v.n)) THEN NumStrV(Digits(v.n)[i + 1]) ELSE Undef)
      [] OTHER -> Undef

\* parseFloat(v)
RECURSIVE ParseFloat(_)
ParseFloat(v) ==
    CASE v.t \in {"num", "numstr"} -> Num(v.n)
      [] v.t = "inf" -> Inf
      [] v.t = "arr" ->
            IF v.a = <<>> \/ v.a[1].t \in {"undef", "null"} THEN NaN ELSE ParseFloat(v.a[1])
      [] OTHER -> NaN

\* Number(v)
NumberOf(v) ==
    CASE v.t \in {"num", "numstr"} -> Num(v.n)
      [] v.t = "inf" -> Inf
      [] v.t = "null" -> Num(0)
      [] v.t = "arr" ->
            IF v.a = <<>> THEN Num(0)
            ELSE IF Len(v.a) = 1 /\ v.a[1].t \in {"num", "numstr"} THEN Num(v.a[1].n)
            ELSE NaN
      [] OTHER -> NaN

(***************************************************************************)
(* An HTTP exchange as the adapter sees it.                                *)
(*   net = "reject"  : fetch() rejects (transport failure)                 *)
(*         "http"    : a response with res.ok false (non-2xx)              *)
(*         "badjson" : res.json() rejects (the body is not JSON)           *)
(*         "ok"      : a 2xx response with a JSON body                     *)
(*   top = "null"     : the body is the JSON value null                    *)
(*         "missing"  : an object without the feed's top-level array       *)
(*         "nonarray" : the field holds a truthy value that is no array    *)
(*         "array"    : the field holds the array items                    *)
(***************************************************************************)
Response(net, top, items) == [net |-> net, top |-> top, items |-> items]

\* what the body of a try block ends in: a value, an early "return []" after a
\* non-2xx response (failed), or an exception (thrown)
Value(out) == [thrown |-> FALSE, failed |-> FALSE, out |-> out]
EarlyEmpty == [thrown |-> FALSE, failed |-> TRUE, out |-> <<>>]
Thrown(out) == [thrown |-> TRUE, failed |-> TRUE, out |-> out]

\* a settled adapter promise
Resolved(out, failed) == [rejected |-> FALSE, failed |-> failed, out |-> out]
Rejected == [rejected |-> TRUE, failed |-> TRUE, out |-> <<>>]

\* the body without its try / catch: an exception rejects the adapter's promise
TryCatchMissing(body, handlerOut) ==
    IF body.thrown THEN Rejected ELSE Resolved(body.out, body.failed)

\* try { body } catch (e) { console.error(...); return handlerOut; }
TryCatch(body, handlerOut) ==
    IF body.thrown THEN Resolved(handlerOut, TRUE) ELSE Resolved(body.out, body.failed)

\* one callback of a forEach / map / for-of loop
Skip == [r |-> "skip"]
Throw == [r |-> "throw"]
Push(rec) == [r |-> "push", rec |-> rec]

\* a forEach / map / for-of loop over the items whose callbacks end as outcomes[i..]:
\* the records pushed, in order, appended to acc until a callback throws
Loop(outcomes, i, acc) ==
    LET throws == { k \in i..Len(outcomes) : outcomes[k].r = "throw" }
        stop == IF throws = {} THEN Len(outcomes) + 1
                ELSE CHOOSE k \in throws : \A j \in throws : k <= j
        ran == SubSeq(outcomes, i, stop - 1)
        pushed == SelectSeq(ran, LAMBDA c : c.r = "push")
    IN  [thrown |-> throws # {},
         out |-> acc \o [k \in 1..Len(pushed) |-> pushed[k].rec]]

(***************************************************************************)
(* services/liveData.ts                                                    *)
(***************************************************************************)
\* the DisasterEvent fields the pipeline reads (type, location and description
\* are display strings)
DisasterEvent(id, lat, lng, severity, timestamp) ==
    [id |-> id, lat |-> lat, lng |-> lng, severity |-> severity, timestamp |-> timestamp]

\* new Date().toISOString() at the time of the call
NowIso == "now"

\* a search that looks at the top level only
findLonLatShallow(c) ==
    IF ~Truthy(c) THEN <<FALSE, Undef, Undef>>
    ELSE IF IsNumber(Index(c, 0)) /\ IsNumber(Index(c, 1)) THEN <<TRUE, Index(c, 0), Index(c, 1)>>
    ELSE <<FALSE, Undef, Undef>>

\* findLonLat of fetchEonetDisasters: <<found, lon, lat>>
RECURSIVE findLonLat(_)
findLonLat(c) ==
    IF ~Truthy(c) THEN <<FALSE, Undef, Undef>>
    ELSE IF IsNumber(Index(c, 0)) /\ IsNumber(Index(c, 1)) THEN <<TRUE, Index(c, 0), Index(c, 1)>>
    ELSE IF IsArray(c) /\ Len(c.a) > 0 THEN findLonLat(c.a[1])
    ELSE <<FALSE, Undef, Undef>>

\* an id that leaves its source prefix out
IdWithoutPrefix(prefix, id, idx) == IF id # "" THEN id ELSE StringOf(idx)

\* `${prefix}-${id || idx}`
IdOrIndex(prefix, id, idx) == prefix \o "-" \o (IF id # "" THEN id ELSE StringOf(idx))

\* the forEach callback of fetchEonetDisasters
EonetDisasterOf(ev, idx) ==
    IF ev.k = "null" THEN Throw
    ELSE IF ev.k = "prim" \/ ~ev.geometry.isArr \/ Len(ev.geometry.g) = 0 THEN Skip
    ELSE LET geom == ev.geometry.g[Len(ev.geometry.g)]
         IN  IF geom.k = "null" \/ ~Truthy(geom.coordinates) THEN Skip
             ELSE LET pair == findLonLat(geom.coordinates)
                      numLon == NumberOf(pair[2])
                      numLat == NumberOf(pair[3])
                  IN  IF ~pair[1] THEN Skip
                      ELSE IF ~IsFinite(numLat) \/ ~IsFinite(numLon) THEN Skip
                      ELSE Push(DisasterEvent(IdOrIndex("eonet", ev.id, idx), numLat, numLon,
                                              "Medium",
                                              IF geom.date # "" THEN geom.date ELSE NowIso))

\* the body of the try block of the three fetch-and-map adapters of liveData.ts
LiveBody(r, outcomes) ==
    CASE r.net \in {"reject", "badjson"} -> Thrown(<<>>)
      [] r.net = "http" -> EarlyEmpty
      [] r.top \in {"null", "nonarray"} -> Thrown(<<>>)
      [] r.top = "missing" -> Value(<<>>)
      [] OTHER -> LET l == Loop(outcomes, 1, <<>>)
                  IN  IF l.thrown THEN Thrown(l.out) ELSE Value(l.out)

fetchEonetDisasters(r) == TryCatch(LiveBody(r, [i \in 1..Len(r.items) |-> EonetDisasterOf(r.items[i], i - 1)]), <<>>)

\* new Date(time || Date.now()).toISOString(): <<thrown, string>>
IsoOfTime(time) ==
    CASE ~Truthy(time) -> <<FALSE, NowIso>>
      [] time.t \in {"num", "numstr"} -> <<FALSE, "T" \o StringOf(time.n)>>
      [] OTHER -> <<TRUE, "">>

\* a strict comparison mag > k
MagAbove(mag, k) ==
    CASE mag.t \in {"num", "numstr"} -> mag.n > k
      [] mag.t = "inf" -> TRUE
      [] OTHER -> FALSE

\* mag >= k for a magnitude in tenths (the comparison coerces a numeric string)
MagAtLeast(mag, k) ==
    CASE mag.t \in {"num", "numstr"} -> mag.n >= k
      [] mag.t = "inf" -> TRUE
      [] OTHER -> FALSE

\* the map callback of fetchUSGSEarthquakes
UsgsEarthquakeOf(f, i) ==
    IF f.k = "null" THEN Throw
    ELSE LET obj == f.k = "obj"
             mag == IF obj /\ f.hasProps /\ Truthy(f.mag) THEN f.mag ELSE Num(0)
             severity == IF MagAtLeast(mag, 50) THEN "High"
                         ELSE IF MagAtLeast(mag, 40) THEN "Medium" ELSE "Low"
             coords == IF obj /\ f.hasGeom /\ Truthy(f.coordinates) THEN f.coordinates
                       ELSE Arr(<<Num(0), Num(0)>>)
             lon == Index(coords, 0)
             lat == Index(coords, 1)
             iso == IsoOfTime(IF obj /\ f.hasProps THEN f.time ELSE Undef)
         IN  IF iso[1] THEN Throw
             ELSE Push(DisasterEvent(IdOrIndex("usgs", IF obj THEN f.id ELSE "", i),
                                     ParseFloat(lat), ParseFloat(lon), severity, iso[2]))

fetchUSGSEarthquakes(r) == TryCatch(LiveBody(r, [i \in 1..Len(r.items) |-> UsgsEarthquakeOf(r.items[i], i - 1)]), <<>>)

\* the map callback and filter of fetchOpenAQ (EnvironmentalData: id, lat, lng)
OpenAQOf(r, i) ==
    IF r.k = "null" \/ (r.k = "obj" /\ r.measurements = "nonarray") THEN Throw
    ELSE LET obj == r.k = "obj"
             lat == IF obj /\ r.hasCoord /\ Truthy(r.latitude) THEN r.latitude ELSE Num(0)
             lng == IF obj /\ r.hasCoord /\ Truthy(r.longitude) THEN r.longitude ELSE Num(0)
         IN  IF lat = Num(0) /\ lng = Num(0) THEN Skip
             ELSE Push([id |-> IdOrIndex("openaq", IF obj THEN r.location ELSE "", i),
                        lat |-> lat, lng |-> lng])

fetchOpenAQ(r) == TryCatch(LiveBody(r, [i \in 1..Len(r.items) |-> OpenAQOf(r.items[i], i - 1)]), <<>>)

(***************************************************************************)
(* services/fema.ts                                                        *)
(***************************************************************************)
\* texts that are searched are sequences of one-character strings
UpperCase == <<"A", "B", "C", "D", "E", "F", "G", "H", "I", "J", "K", "L", "M",
               "N", "O", "P", "Q", "R", "S", "T", "U", "V", "W", "X", "Y", "Z">>
LowerCase == <<"a", "b", "c", "d", "e", "f", "g", "h", "i", "j", "k", "l", "m",
               "n", "o", "p", "q", "r", "s", "t", "u", "v", "w", "x", "y", "z">>

\* text.toLowerCase()
toLowerCase(text) ==
    [i \in 1..Len(text) |->
        IF \E j \in 1..26 : UpperCase[j] = text[i]
        THEN LowerCase[CHOOSE j \in 1..26 : UpperCase[j] = text[i]]
        ELSE text[i]]

\* text.includes(pat)
includes(text, pat) ==
    \E i \in 1..(Len(text) - Len(pat) + 1) : SubSeq(text, i, i + Len(pat) - 1) = pat

Unknown == <<"U", "n", "k", "n", "o", "w", "n">>

\* the state table, <<code, lat, lng>> in hundredths of a degree
STATE_COORDS ==
    <<
       <<"AL", 3281, -8679>>, <<"AK", 6137, -15240>>, <<"AZ", 3373, -11143>>,
       <<"AR", 3497, -9237>>, <<"CA", 3612, -11968>>, <<"CO", 3906, -10531>>,
       <<"CT", 4160, -7276>>, <<"DE", 3932, -7551>>, <<"FL", 2777, -8169>>,
       <<"GA", 3304, -8364>>, <<"HI", 2109, -15750>>, <<"ID", 4424, -11448>>,
       <<"IL", 4035, -8899>>, <<"IN", 3985, -8626>>, <<"IA", 4201, -9321>>,
       <<"KS", 3853, -9673>>, <<"KY", 3767, -8467>>, <<"LA", 3117, -9187>>,
       <<"ME", 4469, -6938>>, <<"MD", 3906, -7680>>, <<"MA", 4223, -7153>>,
       <<"MI", 4333, -8454>>, <<"MN", 4569, -9390>>, <<"MS", 3274, -8968>>,
       <<"MO", 3846, -9229>>, <<"MT", 4692, -11045>>, <<"NE", 4113, -9827>>,
       <<"NV", 3831, -11706>>, <<"NH", 4345, -7156>>, <<"NJ", 4030, -7452>>,
       <<"NM", 3484, -10625>>, <<"NY", 4217, -7495>>, <<"NC", 3563, -7981>>,
       <<"ND", 4753, -9978>>, <<"OH", 4039, -8276>>, <<"OK", 3557, -9693>>,
       <<"OR", 4457, -12207>>, <<"PA", 4059, -7721>>, <<"RI", 4168, -7151>>,
       <<"SC", 3386, -8095>>, <<"SD", 4430, -9944>>, <<"TN", 3575, -8669>>,
       <<"TX", 3105, -9756>>, <<"UT", 4015, -11186>>, <<"VT", 4405, -7271>>,
       <<"VA", 3777, -7817>>, <<"WA", 4740, -12149>>, <<"WV", 3849, -8095>>,
       <<"WI", 4427, -8962>>, <<"WY", 4276, -10730>>, <<"DC", 3891, -7704>>,
       <<"PR", 1822, -6659>>, <<"VI", 1834, -6490>>, <<"GU", 1344, 14479>>,
       <<"AS", -1427, -17013>>, <<"MP", 1510, 14567>>
    >>

\* a FEMADisaster as fetchFEMADisasters maps it from an item of the payload
\* (the fields read downstream); incidentType.k = "num" is a truthy non-string
FEMADisaster(item) ==
    IF item.k = "prim"
    THEN [disasterNumber |-> Undef, declarationDate |-> "",
          incidentType |-> [k |-> "str", text |-> Unknown], state |-> ""]
    ELSE [disasterNumber |-> item.disasterNumber, declarationDate |-> item.declarationDate,
          incidentType |-> IF item.incidentType.k = "missing"
                           THEN [k |-> "str", text |-> Unknown] ELSE item.incidentType,
          state |-> item.state]

FemaDisasterOf(item, i) == IF item.k = "null" THEN Throw ELSE Push(FEMADisaster(item))

\* the body of the try block of fetchFEMADisasters
FemaBody(r) ==
    CASE r.net \in {"reject", "http", "badjson"} -> Thrown(<<>>)
      [] r.top = "null" -> Thrown(<<>>)
      [] r.top \in {"missing", "nonarray"} -> EarlyEmpty
      [] OTHER -> LET l == Loop([i \in 1..Len(r.items) |-> FemaDisasterOf(r.items[i], i - 1)], 1, <<>>)
                  IN  IF l.thrown THEN Thrown(l.out) ELSE Value(l.out)

fetchFEMADisasters(r) == TryCatch(FemaBody(r), <<>>)

\* (Math.random() - 0.5) * offset, offset 0.5, for Math.random() = rnd / 100
Jitter(rnd) == (rnd - 50) \div 2

\* getFEMADisasterCoords: <<found, lat, lng>>
getFEMADisasterCoords(disaster, rndLat, rndLng) ==
    IF \E i \in 1..Len(STATE_COORDS) : STATE_COORDS[i][1] = disaster.state
    THEN LET c == STATE_COORDS[CHOOSE i \in 1..Len(STATE_COORDS) :
                                   STATE_COORDS[i][1] = disaster.state]
         IN  <<TRUE, Num(c[2] + Jitter(rndLat)), Num(c[3] + Jitter(rndLng))>>
    ELSE <<FALSE, Undef, Undef>>

\* getFEMASeverity: <<thrown, severity>>
getFEMASeverity(incidentType) ==
    IF incidentType.k # "str" THEN <<TRUE, "">>
    ELSE LET type == toLowerCase(incidentType.text)
         IN  IF includes(type, <<"h", "u", "r", "r", "i", "c", "a", "n", "e">>)
                \/ includes(type, <<"t", "o", "r", "n", "a", "d", "o">>)
                \/ includes(type, <<"e", "a", "r", "t", "h", "q", "u", "a", "k", "e">>)
             THEN <<FALSE, "High">>
             ELSE IF includes(type, <<"f", "l", "o", "o", "d">>)
                     \/ includes(type, <<"f", "i", "r", "e">>)
                     \/ includes(type, <<"s", "e", "v", "e", "r", "e", " ", "s", "t", "o", "r", "m">>)
             THEN <<FALSE, "Medium">>
             ELSE <<FALSE, "Low">>

\* getFEMACategory: <<thrown, category>>
getFEMACategory(incidentType) ==
    IF incidentType.k # "str" THEN <<TRUE, "">>
    ELSE LET type == toLowerCase(incidentType.text)
         IN  IF includes(type, <<"f", "l", "o", "o", "d">>) THEN <<FALSE, "Flood">>
             ELSE IF includes(type, <<"f", "i", "r", "e">>) THEN <<FALSE, "Wildfire">>
             ELSE IF includes(type, <<"e", "a", "r", "t", "h", "q", "u", "a", "k", "e">>)
             THEN <<FALSE, "Earthquake">>
             ELSE <<FALSE, "Storm">>

\* `${v}` for a JSON scalar
Interpolate(v) ==
    CASE v.t \in {"num", "numstr"} -> StringOf(v.n)
      [] v.t = "null" -> "null"
      [] OTHER -> "undefined"

(***************************************************************************)
(* services/liveData.ts, continued                                         *)
(***************************************************************************)
\* the map callback and filter of fetchFEMADisastersAsEvents; rnd[idx + 1] holds
\* the values Math.random() takes for this disaster
FemaEventOf(disaster, idx, rnd) ==
    LET coords == getFEMADisasterCoords(disaster, rnd[idx + 1][1], rnd[idx + 1][2])
        severity == getFEMASeverity(disaster.incidentType)
    IN  IF ~coords[1] THEN Skip
        ELSE IF severity[1] THEN Throw
        ELSE Push(DisasterEvent("fema-" \o Interpolate(disaster.disasterNumber),
                                coords[2], coords[3], severity[2],
                                IF disaster.declarationDate # ""
                                THEN disaster.declarationDate ELSE NowIso))

fetchFEMADisastersAsEvents(r, rnd) ==
    LET ds == fetchFEMADisasters(r).out
        l == Loop([i \in 1..Len(ds) |-> FemaEventOf(ds[i], i - 1, rnd)], 1, <<>>)
    IN  TryCatch(IF l.thrown THEN Thrown(l.out)
                 ELSE [thrown |-> FALSE, failed |-> fetchFEMADisasters(r).failed, out |-> l.out],
                 <<>>)

\* a set that keeps the value a key already has
MapSetFirstWriter(m, key, val) ==
    IF \E i \in 1..Len(m) : m[i].key = key
    THEN m
    ELSE Append(m, [key |-> key, val |-> val])

\* Map.prototype.set on a Map held as the sequence of its entries in insertion order
MapSet(m, key, val) ==
    IF \E i \in 1..Len(m) : m[i].key = key
    THEN [i \in 1..Len(m) |-> IF m[i].key = key THEN [key |-> key, val |-> val] ELSE m[i]]
    ELSE Append(m, [key |-> key, val |-> val])

\* Array.from(map.values())
MapValues(m) == [i \in 1..Len(m) |-> m[i].val]

\* [...].forEach(d => disastersMap.set(d.id, d)) from the entries in m
RECURSIVE SetAll(_, _)
SetAll(m, list) ==
    IF list = <<>> THEN m
    ELSE LET d == list[Len(list)]
         IN  MapSet(SetAll(m, SubSeq(list, 1, Len(list) - 1)), d.id, d)

\* the merge of fetchLiveData
MergeDisasters(eonet, usgs, fema) == MapValues(SetAll(<<>>, eonet \o usgs \o fema))


(***************************************************************************)
(* services/hazards.ts                                                     *)
(***************************************************************************)
\* the HazardEvent fields the pipeline reads (title is a display string)
HazardEvent(id, category, lat, lng, intensity, detectedAt, source) ==
    [id |-> id, category |-> category, lat |-> lat, lng |-> lng, intensity |-> intensity,
     detectedAt |-> detectedAt, source |-> source]

\* the EONET category mapping of fetchHazardEvents, on the lower-cased title
EonetCategory(catTitle) ==
    IF includes(catTitle, <<"w", "i", "l", "d", "f", "i", "r", "e">>)
       \/ includes(catTitle, <<"f", "i", "r", "e">>) THEN "Wildfire"
    ELSE IF includes(catTitle, <<"f", "l", "o", "o", "d">>) THEN "Flood"
    ELSE IF includes(catTitle, <<"e", "a", "r", "t", "h", "q", "u", "a", "k", "e">>)
            \/ includes(catTitle, <<"s", "e", "i", "s", "m", "i", "c">>) THEN "Earthquake"
    ELSE "Storm"

\* Math.min that returns its second argument
MinMissing(a, b) == b
Min(a, b) == IF a < b THEN a ELSE b
Max(a, b) == IF a > b THEN a ELSE b

\* v?.[i]
OptIndex(v, i) == IF v.t \in {"undef", "null"} THEN Undef ELSE Index(v, i)

\* one iteration of the for-of loop over eonet.events
EonetHazardOf(ev, idx) ==
    IF ev.k = "null" THEN Throw
    ELSE IF ev.k = "prim" THEN Skip
    ELSE IF ev.catTitle.k = "num" THEN Throw
    ELSE IF ~ev.geometry.isArr \/ Len(ev.geometry.g) = 0 THEN Skip
    ELSE LET geom == ev.geometry.g[1]
             catTitle == toLowerCase(ev.catTitle.text)
             intensity == Min(10, Max(1, Len(ev.geometry.g)))
         IN  IF geom.k = "null" THEN Skip
             ELSE IF ~IsNumber(OptIndex(geom.coordinates, 1))
                     \/ ~IsNumber(OptIndex(geom.coordinates, 0)) THEN Skip
             ELSE IF ev.title.k = "num" THEN Throw
             ELSE Push(HazardEvent("eonet-" \o (IF ev.id # "" THEN ev.id ELSE "undefined"),
                                   EonetCategory(catTitle),
                                   Index(geom.coordinates, 1), Index(geom.coordinates, 0),
                                   intensity,
                                   IF geom.date # "" THEN geom.date ELSE NowIso,
                                   "NASA EONET"))

\* the first try block of fetchHazardEvents: hazards after it, and whether it caught
EonetBlock(r) ==
    IF r.net # "ok" THEN [caught |-> TRUE, out |-> <<>>]
    ELSE IF r.top # "array" THEN [caught |-> FALSE, out |-> <<>>]
    ELSE LET l == Loop([i \in 1..Len(r.items) |-> EonetHazardOf(r.items[i], i - 1)], 1, <<>>)
         IN  [caught |-> l.thrown, out |-> l.out]

\* Math.floor(Math.random() * 5) + 3 for Math.random() = rnd / 100
RandomIntensity(rnd) == ((rnd * 5) \div 100) + 3

\* one iteration of the for-of loop over femaDisasters
FemaHazardOf(disaster, idx, rnd) ==
    LET coords == getFEMADisasterCoords(disaster, rnd[idx + 1][1], rnd[idx + 1][2])
        category == getFEMACategory(disaster.incidentType)
    IN  IF ~coords[1] THEN Skip
        ELSE IF category[1] THEN Throw
        ELSE Push(HazardEvent("fema-" \o Interpolate(disaster.disasterNumber),
                              category[2], coords[2], coords[3],
                              RandomIntensity(rnd[idx + 1][3]),
                              IF disaster.declarationDate # ""
                              THEN disaster.declarationDate ELSE NowIso,
                              "FEMA"))

\* the second try block of fetchHazardEvents, appending to hazards
FemaBlock(hazards, r, rnd) ==
    LET ds == fetchFEMADisasters(r).out
        l == Loop([i \in 1..Len(ds) |-> FemaHazardOf(ds[i], i - 1, rnd)], 1, hazards)
    IN  [caught |-> l.thrown, out |-> l.out]

fetchHazardEvents(rEonet, rFema, rnd) ==
    LET e == EonetBlock(rEonet)
        f == FemaBlock(e.out, rFema, rnd)
    IN  Resolved(f.out, e.caught \/ f.caught \/ fetchFEMADisasters(rFema).failed)

InfraCap == 60

InfrastructureSite(id, name, type, lat, lng, status) ==
    [id |-> id, name |-> name, type |-> type, lat |-> lat, lng |-> lng, status |-> status]

\* one iteration of the for-of loop over json.elements.slice(0, 60)
\* the loop body with the power plant tag tested before the hospital tag
InfraSiteOfPlantFirst(el, idx) ==
    IF el.k = "null" THEN Throw
    ELSE IF el.k = "prim" THEN Skip
    ELSE IF ~IsNumber(el.lat) \/ ~IsNumber(el.lon) THEN Skip
    ELSE LET type == IF el.tags.power = "plant" THEN "Power Plant"
                     ELSE IF el.tags.amenity = "hospital" THEN "Hospital"
                     ELSE IF el.tags.harbour THEN "Port"
                     ELSE IF el.tags.amenity = "shelter" THEN "Shelter"
                     ELSE ""
         IN  IF type = "" THEN Skip
             ELSE Push(InfrastructureSite("osm-" \o Interpolate(el.id),
                                          IF el.tags.name # "" THEN el.tags.name
                                          ELSE type \o " (OSM)",
                                          type, el.lat, el.lon, "Operational"))

InfraSiteOf(el, idx) ==
    IF el.k = "null" THEN Throw
    ELSE IF el.k = "prim" THEN Skip
    ELSE IF ~IsNumber(el.lat) \/ ~IsNumber(el.lon) THEN Skip
    ELSE LET type == IF el.tags.amenity = "hospital" THEN "Hospital"
                     ELSE IF el.tags.power = "plant" THEN "Power Plant"
                     ELSE IF el.tags.harbour THEN "Port"
                     ELSE IF el.tags.amenity = "shelter" THEN "Shelter"
                     ELSE ""
         IN  IF type = "" THEN Skip
             ELSE Push(InfrastructureSite("osm-" \o Interpolate(el.id),
                                          IF el.tags.name # "" THEN el.tags.name
                                          ELSE type \o " (OSM)",
                                          type, el.lat, el.lon, "Operational"))

\* the fallback of the catch block
MockSites ==
    << InfrastructureSite("mock-hospital", "Central Hospital", "Hospital",
                          Num(5150), Num(-11), "Operational"),
       InfrastructureSite("mock-power", "Grid Plant", "Power Plant",
                          Num(3855), Num(-12150), "Degraded") >>

\* the adapter with a catch block that pushes nothing
fetchInfrastructureSitesNoFallback(r) ==
    IF r.net # "ok" THEN Resolved(<<>>, TRUE)
    ELSE IF r.top # "array" THEN Resolved(<<>>, FALSE)
    ELSE LET els == SubSeq(r.items, 1, Min(InfraCap, Len(r.items)))
             l == Loop([i \in 1..Len(els) |-> InfraSiteOf(els[i], i - 1)], 1, <<>>)
         IN  Resolved(l.out, l.thrown)

\* fetchInfrastructureSites: try { fetch, loop } catch { mock fallback } return sites
fetchInfrastructureSites(r) ==
    IF r.net # "ok" THEN Resolved(MockSites, TRUE)
    ELSE IF r.top # "array" THEN Resolved(<<>>, FALSE)
    ELSE LET els == SubSeq(r.items, 1, Min(InfraCap, Len(r.items)))
             l == Loop([i \in 1..Len(els) |-> InfraSiteOf(els[i], i - 1)], 1, <<>>)
         IN  IF l.thrown
             THEN Resolved(IF l.out = <<>> THEN MockSites ELSE l.out, TRUE)
             ELSE Resolved(l.out, FALSE)

\* sizes are in tenths
OverlayPoint(lat, lng, size, color, kind, original) ==
    [lat |-> lat, lng |-> lng, size |-> size, color |-> color, kind |-> kind,
     original |-> original]

\* transformHazards without the Math.min clamp
transformHazardsUnclamped(hazards) ==
    [i \in 1..Len(hazards) |->
        LET h == hazards[i]
            color == CASE h.category = "Wildfire" -> "#fb923c"
                       [] h.category = "Flood" -> "#22d3ee"
                       [] h.category = "Earthquake" -> "#a855f7"
                       [] h.category = "Storm" -> "#6366f1"
                       [] OTHER -> "#3b82f6"
        IN  OverlayPoint(h.lat, h.lng, 20 + h.intensity * 5, color, "hazard", h)]

\* the category is one of the four of the HazardEvent type, so that
\* h.category.toLowerCase() is compared on the capitalised name
transformHazards(hazards) ==
    [i \in 1..Len(hazards) |->
        LET h == hazards[i]
            color == CASE h.category = "Wildfire" -> "#fb923c"
                       [] h.category = "Flood" -> "#22d3ee"
                       [] h.category = "Earthquake" -> "#a855f7"
                       [] h.category = "Storm" -> "#6366f1"
                       [] OTHER -> "#3b82f6"
        IN  OverlayPoint(h.lat, h.lng, Min(60, 20 + h.intensity * 5), color, "hazard", h)]

\* transformInfrastructure with the tiers of Degraded and Offline exchanged
transformInfrastructureSwapped(sites) ==
    [i \in 1..Len(sites) |->
        LET s == sites[i]
        IN  [lat |-> s.lat, lng |-> s.lng,
             size |-> IF s.status = "Operational" THEN 14
                      ELSE IF s.status = "Degraded" THEN 24 ELSE 20,
             color |-> IF s.status = "Operational" THEN "#10b981"
                       ELSE IF s.status = "Degraded" THEN "#dc2626" ELSE "#f59e0b",
             label |-> s.name,
             kind |-> "infrastructure",
             original |-> s]]

\* the points of the sites, with their label (the label of a hazard point, the
\* cleaned title of the event, is left out of the hazard points above)
transformInfrastructure(sites) ==
    [i \in 1..Len(sites) |->
        LET s == sites[i]
        IN  [lat |-> s.lat, lng |-> s.lng,
             size |-> IF s.status = "Operational" THEN 14
                      ELSE IF s.status = "Degraded" THEN 20 ELSE 24,
             color |-> IF s.status = "Operational" THEN "#10b981"
                       ELSE IF s.status = "Degraded" THEN "#f59e0b" ELSE "#dc2626",
             label |-> s.name,
             kind |-> "infrastructure",
             original |-> s]]

\* the value fetchLiveOverlay resolves to once both members of its join resolved
ComposeOverlay(hazards, infra) == transformHazards(hazards) \o transformInfrastructure(infra)


(***************************************************************************)
(* The feeds' answers the model draws from.                                *)
(***************************************************************************)
\* [lon, lat] pairs, in hundredths of a degree
PairA == Arr(<<Num(-9781), Num(3080)>>)
PairB == Arr(<<Num(1000), Num(2000)>>)
PairOutOfRange == Arr(<<Num(20000), Num(9500)>>)
Polygon == Arr(<<Arr(<<PairB, PairA, PairB>>)>>)

Str(text) == [k |-> "str", text |-> text]
NoStr == [k |-> "missing", text |-> <<>>]
NumForStr == [k |-> "num", text |-> <<>>]

Geom(coordinates, date) == [k |-> "obj", coordinates |-> coordinates, date |-> date]
NullGeom == [k |-> "null", coordinates |-> Undef, date |-> ""]
Geometry(g) == [isArr |-> TRUE, g |-> g]
NoGeometry == [isArr |-> FALSE, g |-> <<>>]

\* an item of events[]; id "" is an absent id
EonetEvent(id, title, catTitle, geometry) ==
    [k |-> "obj", id |-> id, title |-> title, catTitle |-> catTitle, geometry |-> geometry]
Wildfires == Str(<<"W", "i", "l", "d", "f", "i", "r", "e", "s">>)
Ev(id, g) == EonetEvent(id, Str(<<"F", "i", "r", "e">>), Wildfires, Geometry(g))
NullItem == [k |-> "null"]
PrimItem == [k |-> "prim"]

\* an item of features[]; mag is in tenths
UsgsFeature(id, hasProps, mag, time, hasGeom, coordinates) ==
    [k |-> "obj", id |-> id, hasProps |-> hasProps, mag |-> mag, time |-> time,
     hasGeom |-> hasGeom, coordinates |-> coordinates]

\* an item of DisasterDeclarationsSummaries[]
FemaItem(disasterNumber, state, incidentType, declarationDate) ==
    [k |-> "obj", disasterNumber |-> disasterNumber, state |-> state,
     incidentType |-> incidentType, declarationDate |-> declarationDate]
Flood == Str(<<"F", "l", "o", "o", "d">>)
Hurricane == Str(<<"H", "u", "r", "r", "i", "c", "a", "n", "e">>)

\* an item of results[]; location "" is an absent location
OpenAQResult(location, hasCoord, latitude, longitude, measurements) ==
    [k |-> "obj", location |-> location, hasCoord |-> hasCoord, latitude |-> latitude,
     longitude |-> longitude, measurements |-> measurements]

\* an item of elements[]
Tags(amenity, power, harbour) ==
    [name |-> "", amenity |-> amenity, power |-> power, harbour |-> harbour]
NamedTags(name, amenity, power, harbour) ==
    [name |-> name, amenity |-> amenity, power |-> power, harbour |-> harbour]
OsmElement(id, lat, lon, tags) == [k |-> "obj", id |-> id, lat |-> lat, lon |-> lon, tags |-> tags]

EonetItems ==
    { NullItem, PrimItem,
      Ev("E1", <<Geom(PairA, "d1")>>), Ev("E1", <<Geom(PairB, "d2")>>),
      Ev("", <<Geom(PairA, "")>>), Ev("1", <<Geom(PairB, "d1")>>),
      Ev("E2", <<Geom(PairB, "d1"), Geom(PairA, "d2")>>),
      Ev("E2", <<Geom(Polygon, "d1")>>),
      Ev("E2", <<Geom(PairOutOfRange, "d1")>>),
      Ev("E2", <<Geom(Arr(<<Inf, Num(2000)>>), "d1")>>),
      Ev("E2", <<Geom(Arr(<<NumStrV(1000), NumStrV(2000)>>), "d1")>>),
      Ev("E2", <<Geom(Arr(<<>>), "d1")>>),
      Ev("E2", <<Geom(Undef, "d1")>>),
      Ev("E2", <<NullGeom>>),
      Ev("E2", <<>>),
      Ev("E4", [i \in 1..(MaxIntensity + 1) |-> Geom(PairA, "d1")]),
      EonetEvent("E3", Str(<<"F", "i", "r", "e">>), Wildfires, NoGeometry),
      EonetEvent("E3", NumForStr, Flood, Geometry(<<Geom(PairB, "d1")>>)),
      EonetEvent("E3", NoStr, NumForStr, Geometry(<<Geom(PairB, "d1")>>)) }

UsgsItems ==
    { NullItem, PrimItem,
      UsgsFeature("u1", TRUE, Num(45), Num(5), TRUE, PairA),
      UsgsFeature("u1", TRUE, Num(62), Num(7), TRUE, PairB),
      UsgsFeature("", TRUE, Num(50), Num(5), TRUE, PairA),
      UsgsFeature("1", TRUE, Num(40), Undef, TRUE, PairB),
      UsgsFeature("u2", FALSE, Undef, Undef, FALSE, Undef),
      UsgsFeature("u2", TRUE, Undef, Num(5), TRUE, Undef),
      UsgsFeature("u2", TRUE, NumStrV(55), Num(5), TRUE, PairOutOfRange),
      UsgsFeature("u2", TRUE, Num(30), Num(5), TRUE, Arr(<<>>)),
      UsgsFeature("u2", TRUE, Num(30), Num(5), TRUE, Arr(<<NumStrV(1000), NumStrV(2000)>>)),
      UsgsFeature("u2", TRUE, Num(30), Num(5), TRUE, Arr(<<Txt, Num(2000)>>)),
      UsgsFeature("u2", TRUE, Num(30), Txt, TRUE, PairB) }

FemaItems ==
    { NullItem, PrimItem,
      FemaItem(Num(4001), "TX", Flood, "d1"),
      FemaItem(Num(4001), "CA", Hurricane, "d2"),
      FemaItem(Num(4002), "TX", NoStr, ""),
      FemaItem(Undef, "AK", Flood, "d1"),
      FemaItem(Num(4003), "ZZ", Flood, "d1"),
      FemaItem(Num(4003), "", Flood, "d1"),
      FemaItem(Num(4004), "TX", NumForStr, "d1") }

OpenAQItems ==
    { NullItem, PrimItem,
      OpenAQResult("a1", TRUE, Num(3080), Num(-9781), "array"),
      OpenAQResult("a1", TRUE, Num(2000), Num(1000), "missing"),
      OpenAQResult("", TRUE, Num(2000), Num(1000), "array"),
      OpenAQResult("a2", FALSE, Undef, Undef, "array"),
      OpenAQResult("a2", TRUE, Num(0), Num(0), "array"),
      OpenAQResult("a2", TRUE, Num(9500), Num(20000), "array"),
      OpenAQResult("a2", TRUE, Txt, Num(1000), "array"),
      OpenAQResult("a2", TRUE, Num(2000), Num(1000), "nonarray") }

OverpassItems ==
    { NullItem, PrimItem,
      OsmElement(Num(1), Num(5000), Num(-10000), Tags("hospital", "", FALSE)),
      OsmElement(Num(1), Num(4500), Num(-7000), Tags("", "plant", FALSE)),
      OsmElement(Num(2), Num(4500), Num(-7000), Tags("hospital", "plant", TRUE)),
      OsmElement(Num(3), Num(4500), Num(-7000), Tags("", "", TRUE)),
      OsmElement(Num(4), Num(4500), Num(-7000), Tags("shelter", "", FALSE)),
      OsmElement(Num(5), Num(4500), Num(-7000), Tags("school", "", FALSE)),
      OsmElement(Num(6), NumStrV(4500), Num(-7000), Tags("hospital", "", FALSE)),
      OsmElement(Num(7), Undef, Undef, Tags("hospital", "", FALSE)),
      OsmElement(Num(8), Num(9500), Num(20000), Tags("hospital", "", FALSE)),
      OsmElement(Num(9), Num(4500), Num(-7000), NamedTags("St Mary", "", "", TRUE)) }

\* the sequences over S of length at most n
RECURSIVE SeqsUpTo(_, _)
SeqsUpTo(S, n) ==
    IF n = 0 THEN {<<>>}
    ELSE LET shorter == SeqsUpTo(S, n - 1)
         IN  shorter \cup {Append(s, x) : s \in {t \in shorter : Len(t) = n - 1}, x \in S}

\* every answer of a feed whose payload items come from S
Answers(S, n) ==
    { Response("reject", "missing", <<>>), Response("http", "missing", <<>>),
      Response("badjson", "missing", <<>>), Response("ok", "null", <<>>),
      Response("ok", "missing", <<>>), Response("ok", "nonarray", <<>>) }
    \cup { Response("ok", "array", items) : items \in SeqsUpTo(S, n) }

\* a payload of one item more than the infrastructure cap, all items alike
LargeAnswer(item) == Response("ok", "array", [i \in 1..(InfraCap + 1) |-> item])

\* the feed is not contacted
NoAnswer == Response("none", "missing", <<>>)

\* values of Math.random(), in hundredths, for one FEMA disaster: lat, lng, intensity
RandomTriples == { <<0, 0, 0>>, <<99, 99, 99>>, <<0, 99, 50>> }


\* the answers drawn for the feeds of an aggregation call
EvOne(coordinates, date) == Ev("1", <<Geom(coordinates, date)>>)
FtOne(id, mag, coordinates) == UsgsFeature(id, TRUE, Num(mag), Num(5), TRUE, coordinates)
OsmHospital == OsmElement(Num(1), Num(5000), Num(-10000), Tags("hospital", "", FALSE))
OsmPlant == OsmElement(Num(2), Num(4500), Num(-7000), Tags("", "plant", FALSE))
AqOne(location) == OpenAQResult(location, TRUE, Num(3080), Num(-9781), "array")

AggEonet ==
    { Response("reject", "missing", <<>>), Response("http", "missing", <<>>),
      Response("ok", "missing", <<>>),
      Response("ok", "array", <<EvOne(PairA, "d1")>>),
      Response("ok", "array", <<EvOne(PairA, "d1"), EvOne(PairB, "d2")>>),
      Response("ok", "array", <<EvOne(PairA, "d1"), NullItem>>) }

AggUsgs ==
    { Response("reject", "missing", <<>>), Response("ok", "nonarray", <<>>),
      Response("ok", "array", <<FtOne("1", 45, PairA)>>),
      Response("ok", "array", <<FtOne("1", 45, PairA), FtOne("2", 50, PairB), FtOne("1", 62, PairB)>>),
      Response("ok", "array", <<FtOne("2", 45, PairA), FtOne("", 30, PairB)>>),
      Response("ok", "array", <<NullItem, FtOne("1", 45, PairA)>>) }

AggFema ==
    { Response("http", "missing", <<>>), Response("ok", "null", <<>>),
      Response("ok", "array", <<FemaItem(Num(1), "TX", Flood, "d1")>>),
      Response("ok", "array", <<FemaItem(Num(1), "TX", Flood, "d1"),
                                FemaItem(Num(1), "CA", Hurricane, "d2")>>),
      Response("ok", "array", <<FemaItem(Num(2), "ZZ", Flood, "d1"),
                                FemaItem(Num(1), "TX", Flood, "d1")>>),
      Response("ok", "array", <<FemaItem(Num(1), "TX", Flood, "d1"),
                                FemaItem(Num(2), "TX", NumForStr, "d1")>>) }

AggOpenAQ ==
    { Response("reject", "missing", <<>>),
      Response("ok", "array", <<AqOne("a1")>>),
      Response("ok", "array", <<AqOne("a1"), AqOne("")>>) }

AggOverpass ==
    { Response("reject", "missing", <<>>), Response("http", "missing", <<>>),
      Response("ok", "missing", <<>>),
      Response("ok", "array", <<OsmHospital>>),
      Response("ok", "array", <<OsmHospital, OsmPlant, OsmHospital>>),
      Response("ok", "array", <<OsmHospital, NullItem>>),
      Response("ok", "array", <<NullItem, OsmHospital>>) }

Feeds(eonet, usgs, fema, openaq, overpass) ==
    [eonet |-> eonet, usgs |-> usgs, fema |-> fema, openaq |-> openaq, overpass |-> overpass]


(***************************************************************************)
(* fetchOpenMeteoForPoints (services/openMeteo.ts)                         *)
(***************************************************************************)
MeteoCap == 40

\* what Open-Meteo answers for one point: "reject" | "http" | "badjson" |
\* "null" (the body is null) | "nocw" (no current_weather) | "ok"
MeteoAnswers == {"reject", "http", "badjson", "null", "nocw", "ok"}

\* the point at index idx (from 0): the first carries an id, the others none
PointId(idx) == IF idx = 0 THEN "openaq-a1" ELSE ""

\* a per-point request: "idle" | "fetching" | "rejected" | "null" | "value"
MeteoIdle(answers) ==
    [answers |-> answers, req |-> [i \in 1..Len(answers) |-> "idle"],
     state |-> "idle", seen |-> <<>>, out |-> <<>>]

\* the ClimateData of the point at index idx
ClimateOf(idx) == [id |-> IdOrIndex("omet", PointId(idx), idx)]

\* what the async callback of points.slice(0, 40).map ends in
RequestOutcome(answer) ==
    CASE answer \in {"reject", "badjson", "null"} -> "rejected"
      [] answer \in {"http", "nocw"} -> "null"
      [] OTHER -> "value"

\* the call: every request of the batch is issued
MeteoCall ==
    /\ call = "fetchOpenMeteoForPoints" /\ omet.state = "idle"
    /\ omet' = [omet EXCEPT !.state = "pending",
                            !.req = [i \in 1..Len(omet.answers) |->
                                        IF i <= MeteoCap THEN "fetching" ELSE "idle"]]
    /\ UNCHANGED <<call, feeds, mpc, mres, hz, agg, sent, effectVars, loadVars, pureVars, globeVars>>

\* Open-Meteo answers the request of point i
MeteoRespond(i) ==
    /\ i \in 1..Len(omet.req) /\ omet.req[i] = "fetching"
    /\ omet' = [omet EXCEPT !.req[i] = RequestOutcome(omet.answers[i])]
    /\ UNCHANGED <<call, feeds, mpc, mres, hz, agg, sent, effectVars, loadVars, pureVars, globeVars>>

\* the requests in order whose outcome is a value
RECURSIVE Promoted(_, _)
Promoted(req, i) ==
    IF i > Len(req) THEN <<>>
    ELSE (IF req[i] = "value" THEN <<ClimateOf(i - 1)>> ELSE <<>>) \o Promoted(req, i + 1)

\* await Promise.all(requests) inside try / catch: what the function returns
MeteoJoined(req) ==
    IF \E i \in 1..Len(req) : req[i] = "rejected" THEN <<>> ELSE Promoted(req, 1)

\* Promise.all settles: on the first rejection, or when every request resolved
MeteoJoin ==
    /\ omet.state = "pending"
    /\ \/ \E i \in 1..Len(omet.req) : omet.req[i] = "rejected"
       \/ \A i \in 1..Len(omet.req) : omet.req[i] \in {"null", "value", "idle"}
    /\ omet' = [omet EXCEPT !.state = "resolved", !.seen = omet.req,
                            !.out = MeteoJoined(omet.req)]
    /\ UNCHANGED <<call, feeds, mpc, mres, hz, agg, sent, effectVars, loadVars, pureVars, globeVars>>

(***************************************************************************)
(* One call of an adapter or of an aggregation, as a state machine.        *)
(***************************************************************************)
Adapters == { "fetchEonetDisasters", "fetchUSGSEarthquakes", "fetchFEMADisasters",
              "fetchFEMADisastersAsEvents", "fetchOpenAQ", "fetchHazardEvents",
              "fetchInfrastructureSites" }
Aggregations == { "fetchLiveData", "fetchLiveOverlay" }

\* the adapters a call runs
Members(c) ==
    CASE c = "fetchLiveData" -> { "fetchEonetDisasters", "fetchUSGSEarthquakes",
                                  "fetchFEMADisastersAsEvents", "fetchOpenAQ" }
      [] c = "fetchLiveOverlay" -> { "fetchHazardEvents", "fetchInfrastructureSites" }
      [] OTHER -> {c}

\* the feeds' answers drawn for a call
FeedsOf(c) ==
    CASE c = "fetchLiveData" ->
            { Feeds(e, u, f, a, NoAnswer) : e \in AggEonet, u \in AggUsgs, f \in AggFema,
                                            a \in AggOpenAQ }
      [] c = "fetchLiveOverlay" ->
            { Feeds(e, NoAnswer, f, NoAnswer, o) : e \in AggEonet, f \in AggFema,
                                                   o \in AggOverpass }
      [] c = "fetchEonetDisasters" ->
            { Feeds(e, NoAnswer, NoAnswer, NoAnswer, NoAnswer) : e \in Answers(EonetItems, MaxItems) }
      [] c = "fetchUSGSEarthquakes" ->
            { Feeds(NoAnswer, u, NoAnswer, NoAnswer, NoAnswer) :
                u \in Answers(UsgsItems, MaxItems) \cup {LargeAnswer(FtOne("", 30, PairA))} }
      [] c \in {"fetchFEMADisasters", "fetchFEMADisastersAsEvents"} ->
            { Feeds(NoAnswer, NoAnswer, f, NoAnswer, NoAnswer) : f \in Answers(FemaItems, MaxItems) }
      [] c = "fetchOpenAQ" ->
            { Feeds(NoAnswer, NoAnswer, NoAnswer, a, NoAnswer) : a \in Answers(OpenAQItems, MaxItems) }
      [] c = "fetchInfrastructureSites" ->
            { Feeds(NoAnswer, NoAnswer, NoAnswer, NoAnswer, o) :
                o \in Answers(OverpassItems, MaxItems) \cup {LargeAnswer(OsmHospital)} }
      [] c = "fetchOpenMeteoForPoints" ->
            { Feeds(NoAnswer, NoAnswer, NoAnswer, NoAnswer, NoAnswer) }
      [] c = "fetchHazardEvents" ->
            { Feeds(e, NoAnswer, f, NoAnswer, NoAnswer) :
                e \in Answers(EonetItems, MaxItems),
                f \in { Response("http", "missing", <<>>),
                        Response("ok", "array", <<FemaItem(Num(1), "TX", Flood, "d1")>>) } }
            \cup
            { Feeds(e, NoAnswer, f, NoAnswer, NoAnswer) :
                e \in { Response("reject", "missing", <<>>),
                        Response("ok", "array", <<EvOne(PairA, "d1")>>) },
                f \in Answers(FemaItems, MaxItems) }

\* the feeds a call sends a request to
FeedsUsed(c) ==
    CASE c = "fetchLiveData" -> {"eonet", "usgs", "fema", "openaq"}
      [] c = "fetchLiveOverlay" -> {"eonet", "fema", "overpass"}
      [] c = "fetchHazardEvents" -> {"eonet", "fema"}
      [] c = "fetchEonetDisasters" -> {"eonet"}
      [] c = "fetchUSGSEarthquakes" -> {"usgs"}
      [] c \in {"fetchFEMADisasters", "fetchFEMADisastersAsEvents"} -> {"fema"}
      [] c = "fetchOpenAQ" -> {"openaq"}
      [] c = "fetchInfrastructureSites" -> {"overpass"}
      [] OTHER -> {}

\* the member of the call that sends the request to feed f
Requester(c, f) ==
    CASE c = "fetchLiveOverlay" /\ f = "overpass" -> "fetchInfrastructureSites"
      [] c \in {"fetchLiveOverlay", "fetchHazardEvents"} -> "fetchHazardEvents"
      [] c = "fetchLiveData" /\ f = "eonet" -> "fetchEonetDisasters"
      [] c = "fetchLiveData" /\ f = "usgs" -> "fetchUSGSEarthquakes"
      [] c = "fetchLiveData" /\ f = "fema" -> "fetchFEMADisastersAsEvents"
      [] c = "fetchLiveData" /\ f = "openaq" -> "fetchOpenAQ"
      [] OTHER -> c

\* the request of the call to feed f was sent / is awaiting its response
RequestIssued(f) ==
    LET m == Requester(call, f)
    IN  IF m = "fetchHazardEvents" /\ f = "fema"
        THEN mpc[m] \in {"fema", "done"}
        ELSE mpc[m] \in {"fetching", "fema", "done"}

RequestOutstanding(f) ==
    LET m == Requester(call, f)
    IN  IF m = "fetchHazardEvents" /\ f = "fema"
        THEN mpc[m] = "fema"
        ELSE mpc[m] = "fetching"

FeedNames == {"eonet", "usgs", "fema", "openaq", "overpass"}

\* the feeds whose request the call sends before it first awaits: all of them but
\* FEMA in fetchHazardEvents, which sends it after its EONET block
SentAtCall(c) ==
    { f \in FeedsUsed(c) : ~(Requester(c, f) = "fetchHazardEvents" /\ f = "fema") }

Pending == Resolved(<<>>, FALSE)

\* the promise an aggregation returns
AggPending == [state |-> "pending", disasters |-> <<>>, environmental |-> <<>>, overlay |-> <<>>]
AggRejected == [state |-> "rejected", disasters |-> <<>>, environmental |-> <<>>, overlay |-> <<>>]

Comps == {"GlobeMap", "App"}

\* infraPoints = [] / overlayData = null; a fetched overlay is the cycle that
\* fetched it and its numbers of points by kind
NoOverlay == [cycle |-> 0, hazards |-> 0, infrastructure |-> 0]

\* a cycle: its getDisasters and getEnvironmentalData calls, "inflight" | "ok" |
\* "fail", and whether the await of its Promise.all returned
NewCycle == [d |-> "inflight", e |-> "inflight", joined |-> FALSE]

\* the overlay effects before the overlay was ever enabled
EffectIdle ==
    /\ enabled = FALSE
    /\ alive = TRUE
    /\ runs = [c \in Comps |-> <<>>]
    /\ shown = [c \in Comps |-> NoOverlay]
    /\ loading = [c \in Comps |-> FALSE]
    /\ error = [c \in Comps |-> FALSE]

\* App right after it mounted: loadData was called once
LoadMounted ==
    /\ cycles = <<NewCycle>>
    /\ disasters = 0
    /\ environmentalData = 0
    /\ isLoading = TRUE
    /\ timer = "active"

\* no call of the pipeline is under way
PipeIdle ==
    /\ call = "none"
    /\ feeds = Feeds(NoAnswer, NoAnswer, NoAnswer, NoAnswer, NoAnswer)
    /\ mpc = [m \in Adapters |-> "idle"]
    /\ mres = [m \in Adapters |-> Pending]
    /\ hz = [caught |-> FALSE, out |-> <<>>]
    /\ agg = AggPending
    /\ omet = MeteoIdle(<<>>)
    /\ sent = [f \in FeedNames |-> 0]

\* a function result before the function is applied
NotApplied == [done |-> FALSE, v |-> <<>>]
Applied(v) == [done |-> TRUE, v |-> v]

\* no pure function is under study
PureIdle ==
    /\ fn = "none"
    /\ arg = <<>>
    /\ res = NotApplied

\* GlobeMap before any click
GlobeIdle ==
    /\ clicked = <<>>
    /\ pov = <<>>
    /\ selectedCountry = <<>>
    /\ escaped = FALSE
    /\ polarInfo = <<>>
    /\ reqs = <<>>

\* App and GlobeMap mounted, the overlay off, no call of the pipeline under way
Idle ==
    /\ PipeIdle
    /\ EffectIdle
    /\ LoadMounted
    /\ PureIdle
    /\ GlobeIdle

Init ==
    /\ call \in Adapters \cup Aggregations \cup {"fetchOpenMeteoForPoints"}
    /\ feeds \in FeedsOf(call)
    /\ mpc = [m \in Adapters |-> "idle"]
    /\ mres = [m \in Adapters |-> Pending]
    /\ hz = [caught |-> FALSE, out |-> <<>>]
    /\ agg = AggPending
    /\ omet \in (IF call = "fetchOpenMeteoForPoints"
                 THEN { MeteoIdle(a) : a \in SeqsUpTo(MeteoAnswers, MaxPoints) }
                 ELSE { MeteoIdle(<<>>) })
    /\ sent = [f \in FeedNames |-> 0]
    /\ EffectIdle
    /\ LoadMounted
    /\ PureIdle
    /\ GlobeIdle

\* the call: every member adapter runs to its first await, its request issued
Call ==
    /\ \A m \in Adapters : mpc[m] = "idle"
    /\ mpc' = [m \in Adapters |-> IF m \in Members(call) THEN "fetching" ELSE "idle"]
    /\ sent' = [f \in FeedNames |-> IF f \in SentAtCall(call) THEN sent[f] + 1 ELSE sent[f]]
    /\ UNCHANGED <<call, feeds, mres, hz, agg, omet, effectVars, loadVars, pureVars, globeVars>>

\* the promise of a single-feed adapter, given its feed's answer
AdapterResult(m, r, rnd) ==
    CASE m = "fetchEonetDisasters" -> fetchEonetDisasters(r)
      [] m = "fetchUSGSEarthquakes" -> fetchUSGSEarthquakes(r)
      [] m = "fetchFEMADisasters" -> fetchFEMADisasters(r)
      [] m = "fetchFEMADisastersAsEvents" -> fetchFEMADisastersAsEvents(r, rnd)
      [] m = "fetchOpenAQ" -> fetchOpenAQ(r)
      [] m = "fetchInfrastructureSites" -> fetchInfrastructureSites(r)

FeedOf(m) ==
    CASE m = "fetchEonetDisasters" -> feeds.eonet
      [] m = "fetchUSGSEarthquakes" -> feeds.usgs
      [] m \in {"fetchFEMADisasters", "fetchFEMADisastersAsEvents"} -> feeds.fema
      [] m = "fetchOpenAQ" -> feeds.openaq
      [] m = "fetchInfrastructureSites" -> feeds.overpass

\* the values Math.random() takes, one triple per item of the FEMA payload
RandomFor(r) == [1..Len(r.items) -> RandomTriples]

\* an adapter that sends its request once more after a failed attempt
SettleWithRetry(m) ==
    /\ m \in Adapters \ {"fetchHazardEvents"}
    /\ mpc[m] = "fetching"
    /\ \E rnd \in RandomFor(feeds.fema) :
          LET r == AdapterResult(m, FeedOf(m), rnd)
              f == CHOOSE g \in FeedsUsed(m) : TRUE
          IN  IF r.failed /\ sent[f] < 2
              THEN sent' = [sent EXCEPT ![f] = @ + 1] /\ UNCHANGED <<mres, mpc>>
              ELSE /\ mres' = [mres EXCEPT ![m] = r]
                   /\ mpc' = [mpc EXCEPT ![m] = "done"]
                   /\ UNCHANGED sent
    /\ UNCHANGED <<call, feeds, hz, agg, omet, effectVars, loadVars, pureVars, globeVars>>

\* the feed of a single-feed adapter answers and the adapter runs to its end
Settle(m) ==
    /\ m \in Adapters \ {"fetchHazardEvents"}
    /\ mpc[m] = "fetching"
    /\ \E rnd \in RandomFor(feeds.fema) :
          mres' = [mres EXCEPT ![m] = AdapterResult(m, FeedOf(m), rnd)]
    /\ mpc' = [mpc EXCEPT ![m] = "done"]
    /\ UNCHANGED <<call, feeds, hz, agg, omet, sent, effectVars, loadVars, pureVars, globeVars>>

\* fetchHazardEvents: EONET answers, the first try block runs, the FEMA request is issued
HazardsEonet ==
    /\ mpc["fetchHazardEvents"] = "fetching"
    /\ hz' = EonetBlock(feeds.eonet)
    /\ mpc' = [mpc EXCEPT !["fetchHazardEvents"] = "fema"]
    /\ sent' = [sent EXCEPT !["fema"] = @ + 1]
    /\ UNCHANGED <<call, feeds, mres, agg, omet, effectVars, loadVars, pureVars, globeVars>>

\* fetchHazardEvents: FEMA answers, the second try block runs, the function returns
HazardsFema ==
    /\ mpc["fetchHazardEvents"] = "fema"
    /\ \E rnd \in RandomFor(feeds.fema) :
          mres' = [mres EXCEPT !["fetchHazardEvents"] =
                      Resolved(FemaBlock(hz.out, feeds.fema, rnd).out,
                               hz.caught \/ FemaBlock(hz.out, feeds.fema, rnd).caught
                                  \/ fetchFEMADisasters(feeds.fema).failed)]
    /\ mpc' = [mpc EXCEPT !["fetchHazardEvents"] = "done"]
    /\ UNCHANGED <<call, feeds, hz, agg, omet, sent, effectVars, loadVars, pureVars, globeVars>>

\* await Promise.all(members): rejects when a member rejected
AllSettled(c) == \A m \in Members(c) : mpc[m] = "done"
AnyRejected(c) == \E m \in Members(c) : mres[m].rejected

\* fetchLiveData after its Promise.all
JoinLiveData ==
    /\ call = "fetchLiveData" /\ agg.state = "pending" /\ AllSettled(call)
    /\ agg' = IF AnyRejected(call) THEN AggRejected
              ELSE [state |-> "resolved",
                    disasters |-> MergeDisasters(mres["fetchEonetDisasters"].out,
                                                 mres["fetchUSGSEarthquakes"].out,
                                                 mres["fetchFEMADisastersAsEvents"].out),
                    environmental |-> mres["fetchOpenAQ"].out,
                    overlay |-> <<>>]
    /\ UNCHANGED <<call, feeds, mpc, mres, hz, omet, sent, effectVars, loadVars, pureVars, globeVars>>

\* fetchLiveOverlay after its Promise.all
JoinLiveOverlay ==
    /\ call = "fetchLiveOverlay" /\ agg.state = "pending" /\ AllSettled(call)
    /\ agg' = IF AnyRejected(call) THEN AggRejected
              ELSE [state |-> "resolved", disasters |-> <<>>, environmental |-> <<>>,
                    overlay |-> ComposeOverlay(mres["fetchHazardEvents"].out,
                                               mres["fetchInfrastructureSites"].out)]
    /\ UNCHANGED <<call, feeds, mpc, mres, hz, omet, sent, effectVars, loadVars, pureVars, globeVars>>

Next ==
    \/ Call
    \/ \E m \in Adapters : Settle(m)
    \/ HazardsEonet
    \/ HazardsFema
    \/ JoinLiveData
    \/ JoinLiveOverlay
    \/ MeteoCall
    \/ \E i \in 1..MaxPoints : MeteoRespond(i)
    \/ MeteoJoin

Spec == Init /\ [][Next]_vars

(***************************************************************************)
(* The overlay effect of GlobeMap and of App (useEffect on                 *)
(* infraHazardsEnabled). React runs the cleanup of the previous effect and *)
(* the new effect in the commit of the toggle, before any promise callback.*)
(***************************************************************************)
Overlay(k, h, n) == [cycle |-> k, hazards |-> h, infrastructure |-> n]

\* one run of the effect body that started a fetch: its closure's `mounted` flag
NewRun == [mounted |-> TRUE, st |-> "inflight"]

\* return () => { mounted = false; } of the last run
Cleanup(rs) ==
    IF rs = <<>> THEN rs ELSE [rs EXCEPT ![Len(rs)] = [@ EXCEPT !.mounted = FALSE]]

\* a result applied whatever the flag of its run
IfMountedMissing(run) == TRUE

\* if (mounted) ...
IfMounted(run) == run.mounted

\* the panel's toggle: setInfraHazardsEnabled(next), the re-render, the cleanup of
\* both effects and their next run
Toggle ==
    /\ alive
    /\ enabled \/ \A c \in Comps : Len(runs[c]) < MaxRuns
    /\ enabled' = ~enabled
    /\ IF enabled
       THEN /\ runs' = [c \in Comps |-> Cleanup(runs[c])]
            /\ shown' = [c \in Comps |-> NoOverlay]
            /\ error' = [c \in Comps |-> FALSE]
            /\ UNCHANGED loading
       ELSE /\ runs' = [c \in Comps |-> Append(runs[c], NewRun)]
            /\ loading' = [c \in Comps |-> TRUE]
            /\ error' = [c \in Comps |-> FALSE]
            /\ UNCHANGED shown
    /\ UNCHANGED <<alive, pipeVars, loadVars, pureVars, globeVars>>

\* fetchLiveOverlay of run k of component c resolves with h hazards and n sites
OverlayResolve(c, k, h, n) ==
    /\ k \in 1..Len(runs[c]) /\ runs[c][k].st = "inflight"
    /\ runs' = [runs EXCEPT ![c][k].st = "done"]
    /\ IF IfMounted(runs[c][k])
       THEN /\ shown' = [shown EXCEPT ![c] = Overlay(k, h, n)]
            /\ loading' = [loading EXCEPT ![c] = FALSE]
       ELSE UNCHANGED <<shown, loading>>
    /\ UNCHANGED <<enabled, alive, error, pipeVars, loadVars, pureVars, globeVars>>

\* the awaited promise of run k rejects (App: the dynamic import of
\* services/hazards fails)
OverlayReject(c, k) ==
    /\ c = "App"
    /\ k \in 1..Len(runs[c]) /\ runs[c][k].st = "inflight"
    /\ runs' = [runs EXCEPT ![c][k].st = "done"]
    /\ IF IfMounted(runs[c][k])
       THEN /\ error' = [error EXCEPT ![c] = TRUE]
            /\ loading' = [loading EXCEPT ![c] = FALSE]
       ELSE UNCHANGED <<error, loading>>
    /\ UNCHANGED <<enabled, alive, shown, pipeVars, loadVars, pureVars, globeVars>>

\* the component tree unmounts: the cleanups run and the state is released
Unmount ==
    /\ alive
    /\ alive' = FALSE
    /\ runs' = [c \in Comps |-> IF enabled THEN Cleanup(runs[c]) ELSE runs[c]]
    /\ shown' = [c \in Comps |-> NoOverlay]
    /\ UNCHANGED <<enabled, loading, error, pipeVars, loadVars, pureVars, globeVars>>

NextEffect ==
    \/ Toggle
    \/ \E c \in Comps, k \in 1..MaxRuns, h \in 0..MaxCount, n \in 0..MaxCount :
          OverlayResolve(c, k, h, n)
    \/ \E c \in Comps, k \in 1..MaxRuns : OverlayReject(c, k)
    \/ Unmount

SpecEffect == Idle /\ [][NextEffect]_vars

\* a fetch that is in flight settles; the toggle and the unmount are the user's
OverlaySettles ==
    \/ \E c \in Comps, k \in 1..MaxRuns, h \in 0..MaxCount, n \in 0..MaxCount :
          OverlayResolve(c, k, h, n)
    \/ \E c \in Comps, k \in 1..MaxRuns : OverlayReject(c, k)

SpecEffectLive == Idle /\ [][NextEffect]_vars /\ WF_vars(OverlaySettles)

(***************************************************************************)
(* The periodic refresh of App (loadData at mount and every 60 s).         *)
(* climateAPI (services/api) answers each call by resolving or rejecting.  *)
(***************************************************************************)
\* setInterval fires: loadData starts another cycle
LoadTick ==
    /\ timer = "active" /\ Len(cycles) < MaxCycles
    /\ cycles' = Append(cycles, NewCycle)
    /\ isLoading' = TRUE
    /\ UNCHANGED <<disasters, environmentalData, timer, pipeVars, effectVars, pureVars, globeVars>>

\* one call of cycle k settles
ApiSettle(k, member, outcome) ==
    /\ k \in 1..Len(cycles) /\ cycles[k][member] = "inflight"
    /\ cycles' = [cycles EXCEPT ![k][member] = outcome]
    /\ UNCHANGED <<disasters, environmentalData, isLoading, timer, pipeVars, effectVars, pureVars, globeVars>>

\* loadData with a catch block that empties the lists
LoadJoinClearing(k) ==
    /\ k \in 1..Len(cycles) /\ ~cycles[k].joined
    /\ \/ cycles[k].d = "fail" \/ cycles[k].e = "fail"
       \/ cycles[k].d = "ok" /\ cycles[k].e = "ok"
    /\ cycles' = [cycles EXCEPT ![k].joined = TRUE]
    /\ IF timer = "active"
       THEN IF cycles[k].d = "ok" /\ cycles[k].e = "ok"
            THEN disasters' = k /\ environmentalData' = k
            ELSE disasters' = 0 /\ environmentalData' = 0
       ELSE UNCHANGED <<disasters, environmentalData>>
    /\ isLoading' = (IF timer = "active" THEN FALSE ELSE isLoading)
    /\ UNCHANGED <<timer, pipeVars, effectVars, pureVars, globeVars>>

\* await Promise.all([...]) of cycle k returns or throws, then catch and finally;
\* React drops the state updates of a component that unmounted
LoadJoin(k) ==
    /\ k \in 1..Len(cycles) /\ ~cycles[k].joined
    /\ \/ cycles[k].d = "fail" \/ cycles[k].e = "fail"
       \/ cycles[k].d = "ok" /\ cycles[k].e = "ok"
    /\ cycles' = [cycles EXCEPT ![k].joined = TRUE]
    /\ IF cycles[k].d = "ok" /\ cycles[k].e = "ok" /\ timer = "active"
       THEN disasters' = k /\ environmentalData' = k
       ELSE UNCHANGED <<disasters, environmentalData>>
    /\ isLoading' = (IF timer = "active" THEN FALSE ELSE isLoading)
    /\ UNCHANGED <<timer, pipeVars, effectVars, pureVars, globeVars>>

\* App unmounts: clearInterval(interval)
LoadUnmount ==
    /\ timer = "active"
    /\ timer' = "cleared"
    /\ UNCHANGED <<cycles, disasters, environmentalData, isLoading, pipeVars, effectVars, pureVars, globeVars>>

NextLoad ==
    \/ LoadTick
    \/ \E k \in 1..MaxCycles, member \in {"d", "e"}, outcome \in {"ok", "fail"} :
          ApiSettle(k, member, outcome)
    \/ \E k \in 1..MaxCycles : LoadJoin(k)
    \/ LoadUnmount

SpecLoad == Idle /\ [][NextLoad]_vars

(***************************************************************************)
(* GlobeMap: onPolygonClick.  Vertices are [lon, lat] pairs in whole       *)
(* degrees on the coordinate axes, whose unit vectors are integers; the    *)
(* sum of the unit vectors is held exactly, and what floating point makes  *)
(* of a sum that is exactly zero is an input of the click.                 *)
(***************************************************************************)
\* cos(lat) cos(lon), cos(lat) sin(lon), sin(lat) of a vertex on an axis
UnitVector(v) ==
    LET lon == v.a[1].n
        lat == v.a[2].n
    IN  CASE lat = 90 -> <<0, 0, 1>>
          [] lat = 0 - 90 -> <<0, 0, 0 - 1>>
          [] lon = 0 -> <<1, 0, 0>>
          [] lon = 90 -> <<0, 1, 0>>
          [] lon = 180 -> <<0 - 1, 0, 0>>
          [] OTHER -> <<0, 0 - 1, 0>>

\* collect(arr): the numeric pairs found in arr, in order
RECURSIVE collect(_)
collect(arr) ==
    IF ~IsArray(arr) THEN <<>>
    ELSE IF Len(arr.a) >= 2 /\ IsNumber(arr.a[1]) /\ IsNumber(arr.a[2]) THEN <<arr>>
    ELSE IF arr.a = <<>> THEN <<>>
    ELSE collect(arr.a[1]) \o collect(Arr(Tail(arr.a)))

\* x, y, z after the loop over pts
RECURSIVE VectorSum(_)
VectorSum(pts) ==
    IF pts = <<>> THEN <<0, 0, 0>>
    ELSE LET u == UnitVector(pts[1])
             r == VectorSum(Tail(pts))
         IN  <<u[1] + r[1], u[2] + r[2], u[3] + r[3]>>

\* a centroid: finite, in the direction of the summed vector, or NaN
Centroid(dir) == [t |-> "num", dir |-> dir]
NaNCentroid == [t |-> "nan", dir |-> <<0, 0, 0>>]

\* a guard that lets every centroid through
IsFiniteMissing(c) == TRUE

\* Number.isFinite(centroidLat) && Number.isFinite(centroidLon)
NumberIsFinite(c) == c.t = "num"

\* what floating point makes of a sum that is exactly zero: len === 0 ("zero"),
\* a tiny len and a finite quotient ("finite"), or a quotient outside the
\* domain of Math.asin ("nan")
Roundings == {"zero", "finite", "nan"}

\* the polygon features: p, p.geometry, p.geometry.coordinates
Feature(k, coordinates) == [k |-> k, coordinates |-> coordinates]
Vertices == { Arr(<<Num(0), Num(0)>>), Arr(<<Num(180), Num(0)>>), Arr(<<Num(0), Num(90)>>) }
Rings == UNION { [1..n -> Vertices] : n \in 1..MaxVertices }
Features ==
    { Feature("null", Undef), Feature("nogeometry", Undef), Feature("obj", Undef),
      Feature("obj", Txt), Feature("obj", Arr(<<>>)),
      Feature("obj", Arr(<<Arr(<<Txt, Num(5)>>)>>)) }
    \cup { Feature("obj", Arr(<<Arr(ring)>>)) : ring \in Rings }

\* a degenerate vertex set: no numeric vertex found in the feature, or a summed
\* unit vector whose length is exactly zero
Degenerate(p, rounding) ==
    LET pts == IF p.k = "obj" THEN collect(p.coordinates) ELSE <<>>
    IN  pts = <<>> \/ (VectorSum(pts) = <<0, 0, 0>> /\ rounding = "zero")

\* the place where the handler left, and whether its vertex set was degenerate
Left(at, p, rounding) == <<[at |-> at, degenerate |-> Degenerate(p, rounding)]>>

\* the handler: ready is globeEl.current, throws is whether pointOfView throws
onPolygonClick(p, ready, rounding, throws) ==
    /\ escaped' = escaped
    /\ IF p.k # "obj" \/ ~Truthy(p.coordinates)
       THEN clicked' = Left("ignored", p, rounding) /\ UNCHANGED <<pov, selectedCountry>>
       ELSE LET pts == collect(p.coordinates)
                sum == VectorSum(pts)
                centroid == IF sum # <<0, 0, 0>> \/ rounding = "finite" THEN Centroid(sum)
                            ELSE NaNCentroid
            IN  IF pts = <<>>
                THEN /\ clicked' = Left("novertex", p, rounding)
                     /\ UNCHANGED <<pov, selectedCountry>>
                ELSE IF sum = <<0, 0, 0>> /\ rounding = "zero"
                THEN /\ clicked' = Left("zerolength", p, rounding)
                     /\ UNCHANGED <<pov, selectedCountry>>
                ELSE IF ~ready
                THEN /\ clicked' = Left("noglobe", p, rounding)
                     /\ pov' = pov /\ selectedCountry' = <<p>>
                ELSE IF ~NumberIsFinite(centroid)
                THEN /\ clicked' = Left("notfinite", p, rounding)
                     /\ pov' = pov /\ selectedCountry' = <<p>>
                ELSE IF throws
                THEN /\ clicked' = Left("caught", p, rounding)
                     /\ pov' = <<centroid>> /\ selectedCountry' = selectedCountry
                ELSE /\ clicked' = Left("moved", p, rounding)
                     /\ pov' = <<centroid>> /\ selectedCountry' = <<p>>
    /\ UNCHANGED <<polarInfo, reqs, pipeVars, effectVars, loadVars, pureVars>>

NextPolygon ==
    \E p \in Features, ready \in BOOLEAN, rounding \in Roundings, throws \in BOOLEAN :
        onPolygonClick(p, ready, rounding, throws)

SpecPolygon == Idle /\ [][NextPolygon]_vars

(***************************************************************************)
(* GlobeMap: onGlobeClick near a pole, the weather response, the close     *)
(* button.  Latitudes and longitudes are in ten-thousandths of a degree.   *)
(***************************************************************************)
\* polarInfo: the click that created it and the request whose weather it holds
\* (0: none)
PolarInfo(click, lat, lng, busy, current) ==
    [click |-> click, lat |-> lat, lng |-> lng, loading |-> busy, current |-> current]

ClickEvents ==
    { [lat |-> lat, lng |-> lng] :
        lat \in {Undef, Num(100000), Num(850000), Num(0 - 900000)},
        lng \in {Undef, Num(450000)} }

\* onGlobeClick(evt)
onGlobeClick(evt) ==
    /\ Len(reqs) < MaxClicks
    /\ IF ~IsNumber(evt.lat) THEN UNCHANGED <<polarInfo, reqs>>
       ELSE IF (IF evt.lat.n < 0 THEN 0 - evt.lat.n ELSE evt.lat.n) >= 850000
       THEN /\ polarInfo' = <<PolarInfo(Len(reqs) + 1,
                                        IF evt.lat.n > 0 THEN 899999 ELSE 0 - 899999,
                                        IF IsNumber(evt.lng) THEN evt.lng.n ELSE 0,
                                        TRUE, 0)>>
            /\ reqs' = Append(reqs, "inflight")
       ELSE UNCHANGED <<polarInfo, reqs>>
    /\ UNCHANGED <<clicked, pov, selectedCountry, escaped, pipeVars, effectVars, loadVars,
                   pureVars>>

\* fetchWeatherForPoint of pole click k settles: the functional update of the
\* try block ("ok") or of the catch block ("fail")
PolarResponse(k, outcome) ==
    /\ k \in 1..Len(reqs) /\ reqs[k] = "inflight"
    /\ reqs' = [reqs EXCEPT ![k] = outcome]
    /\ polarInfo' = IF polarInfo = <<>> THEN <<>>
                    ELSE IF outcome = "ok"
                    THEN <<[polarInfo[1] EXCEPT !.current = k, !.loading = FALSE]>>
                    ELSE <<[polarInfo[1] EXCEPT !.loading = FALSE]>>
    /\ UNCHANGED <<clicked, pov, selectedCountry, escaped, pipeVars, effectVars, loadVars,
                   pureVars>>

\* the close button: setPolarInfo(null)
PolarClose ==
    /\ polarInfo # <<>>
    /\ polarInfo' = <<>>
    /\ UNCHANGED <<reqs, clicked, pov, selectedCountry, escaped, pipeVars, effectVars,
                   loadVars, pureVars>>

NextPolar ==
    \/ \E evt \in ClickEvents : onGlobeClick(evt)
    \/ \E k \in 1..MaxClicks, outcome \in {"ok", "fail"} : PolarResponse(k, outcome)
    \/ PolarClose

SpecPolar == Idle /\ [][NextPolar]_vars



(***************************************************************************)
(* The pure functions of the pipeline, each applied to one argument.       *)
(***************************************************************************)
\* the values a JSON payload can hold as an element of coordinates
CoordLeaves == {JNull, Txt, NumStrV(5), Num(-9781), Num(3080)}

\* what follows the first element of a coordinates array: a leaf or a position
CoordSeconds == CoordLeaves \cup {Arr(<<Num(200), Num(95)>>)}

\* the coordinates values nested at most d deep, of at most two elements
RECURSIVE Coordinates(_)
Coordinates(d) ==
    IF d = 0 THEN CoordLeaves
    ELSE CoordLeaves \cup {Arr(<<>>)}
            \cup { Arr(<<x>>) : x \in Coordinates(d - 1) }
            \cup { Arr(<<x, y>>) : x \in Coordinates(d - 1), y \in CoordSeconds }

\* free texts an adapter classifies: incident types and category titles
FreeTexts ==
    { <<"M", "a", "j", "o", "r", " ", "F", "l", "o", "o", "d", "i", "n", "g", " ", "E", "v", "e", "n", "t">>,
      <<"S", "e", "v", "e", "r", "e", " ", "S", "t", "o", "r", "m", "s">>,
      <<"F", "l", "o", "o", "d", " ", "F", "I", "R", "E">>,
      <<"W", "i", "l", "d", "f", "i", "r", "e", "s">>,
      <<"E", "a", "r", "t", "h", "q", "u", "a", "k", "e">>,
      <<"S", "e", "i", "s", "m", "i", "c", " ", "A", "c", "t", "i", "v", "i", "t", "y">>,
      <<"F", "i", "r", "e">>,
      <<"H", "u", "r", "r", "i", "c", "a", "n", "e">>,
      <<>> }

\* features that differ in properties.mag: absent properties, absent or null mag,
\* a numeric string, and the magnitudes -1.0 .. MaxMagnitude / 10
Magnitudes == {Undef, JNull, NumStrV(55)} \cup { Num(m) : m \in (0 - 10)..MaxMagnitude }
MagFeatures ==
    { UsgsFeature("u1", p, m, Num(5), TRUE, PairA) : p \in BOOLEAN, m \in Magnitudes }

\* the three values of InfrastructureSite['status'], on sites as the adapter
\* builds them
Statuses == {"Operational", "Degraded", "Offline"}
SiteInputs ==
    { InfrastructureSite("osm-7", name, "Hospital", lat, Num(-11), status) :
        name \in {"St Mary", "Hospital (OSM)"}, lat \in {Num(5150), Num(-3386)},
        status \in Statuses }

\* hazards of every category and every intensity of the 0-10 scale
Categories == {"Wildfire", "Flood", "Earthquake", "Storm"}
HazardInputs ==
    { HazardEvent("eonet-1", category, Num(3405), Num(-11824), intensity, 0, "NASA EONET") :
        category \in Categories, intensity \in 0..MaxIntensity }

ListsOf(S) == UNION { [1..n -> S] : n \in 0..MaxItems }

\* services/openMeteo.ts: isStormForecast
\* a >= b of JavaScript for a JSON value a and a number b
GreaterEq(a, b) == NumberOf(a).t = "num" /\ NumberOf(a).n >= b

\* options?.x ?? dflt
OrDefault(v, dflt) == IF v.t \in {"undef", "null"} THEN dflt ELSE v.n

\* Array.isArray(field) && field.some(x => x >= threshold)
SomeAtLeast(field, threshold) ==
    IsArray(field) /\ \E i \in 1..Len(field.a) : GreaterEq(field.a[i], threshold)

\* Array.isArray(field) && field.some(c => c >= 95 && c <= 99)
SomeThunderstorm(field) ==
    IsArray(field) /\ \E i \in 1..Len(field.a) :
        GreaterEq(field.a[i], 95) /\ NumberOf(field.a[i]).n <= 99

\* weather.daily && weather.daily.x (likewise hourly); a part that is absent is
\* held with every field undefined
isStormForecast(weather, options) ==
    IF ~weather.present THEN FALSE
    ELSE LET gustThreshold == OrDefault(options.gustThreshold, 20)
             precipProbThreshold == OrDefault(options.precipProbThreshold, 60)
         IN  \/ SomeAtLeast(weather.daily.wind_gusts_10m_max, gustThreshold)
             \/ SomeAtLeast(weather.hourly.wind_gusts_10m, gustThreshold)
             \/ SomeAtLeast(weather.hourly.precipitation_probability, precipProbThreshold)
             \/ SomeThunderstorm(weather.daily.weather_code)

\* the fields of a forecast: absent, not an array, or arrays around the thresholds
GustFields ==
    { Undef, Txt, Arr(<<>>), Arr(<<Num(19)>>), Arr(<<Num(20)>>), Arr(<<Num(19), Num(26)>>),
      Arr(<<JNull, Txt>>) }
ProbFields == { Undef, Arr(<<Num(59)>>), Arr(<<Num(60)>>), Arr(<<Num(0), Num(61)>>) }
CodeFields ==
    { Undef, Arr(<<Num(94)>>), Arr(<<Num(95)>>), Arr(<<Num(3), Num(99)>>), Arr(<<Num(100)>>) }
Weathers ==
    { [present |-> FALSE,
       daily |-> [wind_gusts_10m_max |-> Undef, weather_code |-> Undef],
       hourly |-> [wind_gusts_10m |-> Undef, precipitation_probability |-> Undef]] }
    \cup
    { [present |-> TRUE,
       daily |-> [wind_gusts_10m_max |-> dg, weather_code |-> c],
       hourly |-> [wind_gusts_10m |-> hg, precipitation_probability |-> p]] :
        dg \in GustFields, hg \in GustFields, p \in ProbFields, c \in CodeFields }
StormOptions ==
    { [gustThreshold |-> g, precipProbThreshold |-> p] :
        g \in {Undef, Num(26)}, p \in {Undef, Num(61)} }

PureFns == {"findLonLat", "category", "severity", "transformInfrastructure",
            "transformHazards", "isStormForecast", "eonet"}

ArgsOf(f) ==
    CASE f = "findLonLat" -> Coordinates(MaxDepth) \cup {Undef}
      [] f = "category" -> FreeTexts
      [] f = "severity" -> MagFeatures
      [] f = "transformInfrastructure" -> ListsOf(SiteInputs)
      [] f = "transformHazards" -> ListsOf(HazardInputs)
      [] f = "eonet" -> Answers(EonetItems, MaxItems)
      [] f = "isStormForecast" ->
            { [weather |-> w, options |-> o] : w \in Weathers, o \in StormOptions }

InitFn ==
    /\ PipeIdle
    /\ EffectIdle
    /\ LoadMounted
    /\ fn \in PureFns
    /\ arg \in ArgsOf(fn)
    /\ res = NotApplied
    /\ GlobeIdle

\* const pair = findLonLat(coords)
ApplyFindLonLat ==
    /\ fn = "findLonLat" /\ ~res.done
    /\ res' = Applied(findLonLat(arg))
    /\ UNCHANGED <<fn, arg, pipeVars, effectVars, loadVars, globeVars>>

\* the two places that classify a free text, given the same text:
\* getFEMACategory(disaster.incidentType) and the category mapping of
\* fetchHazardEvents on (ev.categories?.[0]?.title || '').toLowerCase()
ApplyCategory ==
    /\ fn = "category" /\ ~res.done
    /\ res' = Applied([fema |-> getFEMACategory(Str(arg))[2],
                        eonet |-> EonetCategory(toLowerCase(arg))])
    /\ UNCHANGED <<fn, arg, pipeVars, effectVars, loadVars, globeVars>>

\* the map callback of fetchUSGSEarthquakes on one feature
ApplySeverity ==
    /\ fn = "severity" /\ ~res.done
    /\ res' = Applied(UsgsEarthquakeOf(arg, 0))
    /\ UNCHANGED <<fn, arg, pipeVars, effectVars, loadVars, globeVars>>

ApplyTransformInfrastructure ==
    /\ fn = "transformInfrastructure" /\ ~res.done
    /\ res' = Applied(transformInfrastructure(arg))
    /\ UNCHANGED <<fn, arg, pipeVars, effectVars, loadVars, globeVars>>

ApplyTransformHazards ==
    /\ fn = "transformHazards" /\ ~res.done
    /\ res' = Applied(transformHazards(arg))
    /\ UNCHANGED <<fn, arg, pipeVars, effectVars, loadVars, globeVars>>

ApplyIsStormForecast ==
    /\ fn = "isStormForecast" /\ ~res.done
    /\ res' = Applied(isStormForecast(arg.weather, arg.options))
    /\ UNCHANGED <<fn, arg, pipeVars, effectVars, loadVars, globeVars>>

\* the two readers of the EONET feed, given the same response: the EONET block
\* of fetchHazardEvents and fetchEonetDisasters
ApplyEonet ==
    /\ fn = "eonet" /\ ~res.done
    /\ res' = Applied([hazards |-> EonetBlock(arg).out,
                        disasters |-> fetchEonetDisasters(arg).out])
    /\ UNCHANGED <<fn, arg, pipeVars, effectVars, loadVars, globeVars>>

NextFn ==
    \/ ApplyFindLonLat
    \/ ApplyCategory
    \/ ApplySeverity
    \/ ApplyTransformInfrastructure
    \/ ApplyTransformHazards
    \/ ApplyIsStormForecast
    \/ ApplyEonet

SpecFn == InitFn /\ [][NextFn]_vars


(***************************************************************************)
(* Properties of the aggregation pipeline.                                 *)
(***************************************************************************)
InList(x, list) == \E i \in 1..Len(list) : list[i] = x

\* a later entry of the list carries the id of entry i
Superseded(list, i) == \E j \in (i + 1)..Len(list) : list[j].id = list[i].id

\* the adapters whose lists fetchLiveData merges by id
Merged == {"fetchEonetDisasters", "fetchUSGSEarthquakes", "fetchFEMADisastersAsEvents"}

\* record x of member m is in the list the aggregation resolved to
InOutput(m, x) ==
    CASE m \in Merged -> InList(x, agg.disasters)
      [] m = "fetchOpenAQ" -> InList(x, agg.environmental)
      [] OTHER -> \E i \in 1..Len(agg.overlay) : agg.overlay[i].original = x

\* C1 as stated: an aggregation never rejects, and the list it resolves to holds
\* every record produced by each adapter that succeeded.
C1_EveryRecordKept ==
    /\ agg.state # "rejected"
    /\ agg.state = "resolved" =>
          \A m \in Members(call) :
             ~mres[m].failed => \A i \in 1..Len(mres[m].out) : InOutput(m, mres[m].out[i])

\* C1, amended: an aggregation never rejects, whatever subset of its adapters
\* fails, and the list it resolves to holds every record produced by each adapter
\* that succeeded, except a record that a later record of the same list with the
\* same id supersedes in the id-keyed merge of fetchLiveData.
C1_NeverRejectsKeepsSucceeded ==
    /\ agg.state # "rejected"
    /\ agg.state = "resolved" =>
          \A m \in Members(call) :
             ~mres[m].failed =>
                \A i \in 1..Len(mres[m].out) :
                   (m \in Merged /\ Superseded(mres[m].out, i)) \/ InOutput(m, mres[m].out[i])

\* an aggregation resolved although one adapter failed, and holds a record of one
\* that succeeded
C1_Witness ==
    /\ agg.state = "resolved"
    /\ \E m \in Members(call) : mres[m].failed /\ feeds.usgs.net \in {"reject", "none"}
    /\ \E m \in Members(call) : ~mres[m].failed /\ mres[m].out # <<>>
                                   /\ InOutput(m, mres[m].out[1])

\* the invocation of m met a transport failure, a non-2xx response or a payload
\* it could not process
FailedInvocation(m) ==
    /\ mpc[m] = "done"
    /\ \/ mres[m].failed
       \/ (m # "fetchHazardEvents" /\ (FeedOf(m).net # "ok" \/ FeedOf(m).top # "array"))

NoDuplicateIds(list) ==
    \A i, j \in 1..Len(list) : list[i].id = list[j].id => i = j

\* C6: after merging no two entries share an id, in the list fetchLiveData
\* returns and in the hazard list fetchHazardEvents hands to the composer.
C6_NoDuplicateIds ==
    /\ agg.state = "resolved" => NoDuplicateIds(agg.disasters)
    /\ mpc["fetchHazardEvents"] = "done" => NoDuplicateIds(mres["fetchHazardEvents"].out)

\* C7: records of different sources never overwrite each other in the merge of
\* fetchLiveData: every record an adapter produced has an entry with its id in
\* the merged list, and that entry is a record of the same adapter.
C7_SourcesCoexist ==
    (call = "fetchLiveData" /\ agg.state = "resolved") =>
       \A m \in Merged : \A i \in 1..Len(mres[m].out) :
          \E j \in 1..Len(agg.disasters) :
             /\ agg.disasters[j].id = mres[m].out[i].id
             /\ InList(agg.disasters[j], mres[m].out)

\* an EONET, a USGS and a FEMA record of the same native id and the same
\* coordinates are three entries of the merged list
C7_Witness ==
    /\ call = "fetchLiveData" /\ agg.state = "resolved"
    /\ \E i, j, k \in 1..Len(agg.disasters) :
          /\ agg.disasters[i].id = "eonet-1"
          /\ agg.disasters[j].id = "usgs-1"
          /\ agg.disasters[k].id = "fema-1"
          /\ agg.disasters[i].lat = agg.disasters[j].lat
          /\ agg.disasters[j].lat = agg.disasters[k].lat
          /\ agg.disasters[i].lng = agg.disasters[j].lng
          /\ agg.disasters[j].lng = agg.disasters[k].lng

\* the events fetchLiveData merges, in concatenation order
MergeInput ==
    mres["fetchEonetDisasters"].out \o mres["fetchUSGSEarthquakes"].out
        \o mres["fetchFEMADisastersAsEvents"].out

FirstIndex(list, id) == CHOOSE i \in 1..Len(list) :
    list[i].id = id /\ \A j \in 1..(i - 1) : list[j].id # id
LastIndex(list, id) == CHOOSE i \in 1..Len(list) :
    list[i].id = id /\ \A j \in (i + 1)..Len(list) : list[j].id # id

\* C8: the merge is last-writer-wins with first-occurrence order.
C8_LastWriterFirstOrder ==
    (call = "fetchLiveData" /\ agg.state = "resolved") =>
       LET in == MergeInput
           out == agg.disasters
       IN  /\ NoDuplicateIds(out)
           /\ \A i \in 1..Len(in) : \E p \in 1..Len(out) : out[p].id = in[i].id
           /\ \A p \in 1..Len(out) :
                 /\ InList(out[p], in)
                 /\ out[p] = in[LastIndex(in, out[p].id)]
           /\ \A p, q \in 1..Len(out) :
                 p < q => FirstIndex(in, out[p].id) < FirstIndex(in, out[q].id)

\* the seismic list holds an id, another id, and the first id again
C8_Witness ==
    /\ call = "fetchLiveData" /\ agg.state = "resolved"
    /\ LET u == mres["fetchUSGSEarthquakes"].out
       IN  Len(u) = 3 /\ u[1].id = u[3].id /\ u[1].id # u[2].id /\ u[1] # u[3]

InRange(v, lo, hi) == v.t = "num" /\ lo <= v.n /\ v.n <= hi

\* C9: every record an adapter hands on has a finite coordinate pair with
\* lat in [-90, 90] and lng in [-180, 180].
C9_CoordinatesInRange ==
    \A m \in Adapters \ {"fetchFEMADisasters"} :
       mpc[m] = "done" =>
          \A i \in 1..Len(mres[m].out) :
             /\ InRange(mres[m].out[i].lat, -9000, 9000)
             /\ InRange(mres[m].out[i].lng, -18000, 18000)

\* what the callback of adapter m makes of items[i] taken alone
Alone(m, items, i) ==
    CASE m = "fetchEonetDisasters" -> EonetDisasterOf(items[i], i - 1)
      [] m = "fetchUSGSEarthquakes" -> UsgsEarthquakeOf(items[i], i - 1)
      [] m = "fetchOpenAQ" -> OpenAQOf(items[i], i - 1)
      [] m = "fetchInfrastructureSites" -> InfraSiteOf(items[i], i - 1)
      [] OTHER -> EonetHazardOf(items[i], i - 1)

ItemsOf(m) == IF m = "fetchHazardEvents" THEN feeds.eonet.items ELSE FeedOf(m).items

\* C10: schema mismatches degrade per record: a malformed entry of the payload's
\* array is skipped alone and every well-formed record of the payload is returned.
C10_PerRecordDegradation ==
    \A m \in {"fetchEonetDisasters", "fetchUSGSEarthquakes", "fetchOpenAQ",
              "fetchInfrastructureSites", "fetchHazardEvents"} :
       (call = m /\ mpc[m] = "done") =>
          \A i \in 1..Len(ItemsOf(m)) :
             Alone(m, ItemsOf(m), i).r = "push" =>
                InList(Alone(m, ItemsOf(m), i).rec, mres[m].out)


(***************************************************************************)
(* Properties of the overlay effect, of loadData and of the weather join.  *)
(***************************************************************************)
\* C2: the result of an abandoned overlay cycle is discarded: what infraPoints /
\* overlayData hold was fetched by the newest cycle of a mounted component while
\* the overlay is enabled, never by a cycle that a toggle or the unmount abandoned.
C2_AbandonedCycleDiscarded ==
    \A c \in Comps :
       shown[c] # NoOverlay =>
          /\ alive /\ enabled
          /\ shown[c].cycle = Len(runs[c])
          /\ runs[c][shown[c].cycle].mounted

\* the fetch of an abandoned cycle resolved with points after the overlay was
\* enabled again, and the fetch of the newer cycle resolved too
C2_Witness ==
    \E c \in Comps :
       /\ enabled /\ Len(runs[c]) = 2
       /\ runs[c][1].st = "done" /\ ~runs[c][1].mounted
       /\ runs[c][2].st = "done" /\ shown[c].cycle = 2

\* C3: the results of an earlier loadData cycle are never applied to disasters /
\* environmentalData after the results of a later cycle: the cycle whose result
\* is held never decreases.
C3_StaleResultDiscarded ==
    [][disasters' >= disasters /\ environmentalData' >= environmentalData]_vars

\* C5: a join keeps what its members achieved: the list fetchOpenMeteoForPoints
\* resolves to holds the record of every per-point request that had succeeded
\* when the join settled, whatever happened to the other requests.
C5_JoinKeepsSucceeded ==
    omet.state = "resolved" =>
       \A i \in 1..Len(omet.seen) :
          omet.seen[i] = "value" => InList(ClimateOf(i - 1), omet.out)

(***************************************************************************)
(* Properties of the pure functions.                                       *)
(***************************************************************************)
\* c is an array whose first two elements are numbers: a [lon, lat] position
IsPosition(c) == IsArray(c) /\ Len(c.a) >= 2 /\ IsNumber(c.a[1]) /\ IsNumber(c.a[2])

\* c holds a position at some place and depth
RECURSIVE ContainsPosition(_)
ContainsPosition(c) ==
    IsArray(c) /\ (IsPosition(c) \/ \E i \in 1..Len(c.a) : ContainsPosition(c.a[i]))

\* c, its first element, the first element of that, ... while they are arrays
RECURSIVE FirstChain(_)
FirstChain(c) ==
    IF IsArray(c) /\ Len(c.a) > 0 THEN <<c>> \o FirstChain(c.a[1]) ELSE <<c>>

\* C11 as stated: findLonLat returns the pair of every structure that contains
\* at least one numeric [lon, lat] pair, and 'not found' for every other one.
C11_FindsEveryPair ==
    (fn = "findLonLat" /\ res.done) =>
       IF ContainsPosition(arg) THEN res.v[1] ELSE ~res.v[1]

\* C11, amended: findLonLat returns the first numeric [lon, lat] pair on the chain
\* of first elements of the structure (the structure, its first element, the first
\* element of that, ...), and 'not found' when that chain holds none; it ends
\* with one of the two on every structure.
C11_FirstElementDescent ==
    (fn = "findLonLat" /\ res.done) =>
       LET ch == FirstChain(arg)
           hits == { k \in 1..Len(ch) : IsPosition(ch[k]) }
       IN  IF hits = {}
           THEN res.v = <<FALSE, Undef, Undef>>
           ELSE LET k == CHOOSE h \in hits : \A g \in hits : h <= g
                IN  res.v = <<TRUE, ch[k].a[1], ch[k].a[2]>>

\* the first position of a polygon ring was found two levels down
C11_Witness ==
    /\ fn = "findLonLat" /\ res.done /\ res.v[1]
    /\ IsArray(arg) /\ Len(arg.a) > 0 /\ IsArray(arg.a[1])
    /\ Len(arg.a[1].a) > 0 /\ IsPosition(arg.a[1].a[1])

\* the ordered first-match rules flood, fire, earthquake, default Storm on the
\* lower-cased text
OrderedFirstMatch(text) ==
    LET t == toLowerCase(text)
    IN  CASE includes(t, <<"f", "l", "o", "o", "d">>) -> "Flood"
          [] includes(t, <<"f", "i", "r", "e">>) -> "Wildfire"
          [] includes(t, <<"e", "a", "r", "t", "h", "q", "u", "a", "k", "e">>) -> "Earthquake"
          [] OTHER -> "Storm"

\* C12: wherever an adapter classifies free text, the category is the ordered
\* first match of flood -> Flood, fire -> Wildfire, earthquake -> Earthquake,
\* default Storm, case-insensitively, so the FEMA classifier and the EONET
\* category mapping give the same category for the same text.
C12_OrderedFirstMatch ==
    (fn = "category" /\ res.done) =>
       /\ res.v.fema = OrderedFirstMatch(arg)
       /\ res.v.eonet = OrderedFirstMatch(arg)
       /\ res.v.fema = res.v.eonet

\* the magnitude of a feature in tenths, 0 when it is missing
MagnitudeOf(f) ==
    IF f.hasProps /\ f.mag.t \in {"num", "numstr"} THEN f.mag.n ELSE 0

\* C13: seismic severity is High when mag >= 5, Medium when 4 <= mag < 5 and Low
\* otherwise, a missing magnitude counting as 0; 4 maps to Medium and 5 to High.
C13_SeverityThresholds ==
    (fn = "severity" /\ res.done) =>
       /\ res.v.r = "push"
       /\ res.v.rec.severity =
             (CASE MagnitudeOf(arg) >= 50 -> "High"
                [] MagnitudeOf(arg) >= 40 /\ MagnitudeOf(arg) < 50 -> "Medium"
                [] OTHER -> "Low")

\* a feature of magnitude exactly 4.0 was given severity Medium
C13_Witness ==
    /\ fn = "severity" /\ res.done
    /\ arg.hasProps /\ arg.mag = Num(40)
    /\ res.v.rec.severity = "Medium"

(***************************************************************************)
(* Properties of the requests of a call.                                   *)
(***************************************************************************)
\* C14: in an aggregation cycle every adapter's request is issued before the
\* response of any other is awaited: while the request to one feed is outstanding,
\* the request to every other feed of the cycle has been issued.
C14_RequestsIssuedTogether ==
    call \in Aggregations =>
       \A f, g \in FeedsUsed(call) : RequestOutstanding(f) => RequestIssued(g)

\* C15: an adapter invocation issues exactly one request to a feed it reads,
\* reaches one terminal state, which it never leaves or changes, and never sends
\* a request again after a failure.
C15_OneRequestOneTerminalState ==
    [][ /\ \A f \in FeedNames :
             sent'[f] = (IF f \in FeedsUsed(call) /\ RequestIssued(f)' THEN 1 ELSE 0)
        /\ \A m \in Adapters :
             mpc[m] = "done" => (mpc'[m] = "done" /\ mres'[m] = mres[m]) ]_vars

\* an adapter ended a failed invocation, its one request sent
C15_Witness ==
    \E m \in Adapters \ {"fetchHazardEvents"} :
       /\ call = m /\ mpc[m] = "done" /\ mres[m].failed
       /\ \A f \in FeedsUsed(m) : sent[f] = 1

\* C16: every adapter caps the records it processes: whatever the size of the
\* payload, the list returned by the infrastructure, EONET and USGS adapters has
\* at most the fixed number of entries of the infrastructure cap.
C16_HardCap ==
    \A m \in {"fetchInfrastructureSites", "fetchEonetDisasters", "fetchHazardEvents",
              "fetchUSGSEarthquakes"} :
       mpc[m] = "done" => Len(mres[m].out) <= InfraCap


\* the size tier of a status, in tenths
TierOf(status) ==
    CASE status = "Operational" -> 14 [] status = "Degraded" -> 20 [] status = "Offline" -> 24
PaletteOf(status) ==
    CASE status = "Operational" -> "#10b981" [] status = "Degraded" -> "#f59e0b"
      [] status = "Offline" -> "#dc2626"

\* C17: transformInfrastructure gives one point per site, in order, whose size
\* and color are the fixed tier and palette entry of the site's status
\* (Operational 1.4 #10b981, Degraded 2.0 #f59e0b, Offline 2.4 #dc2626), so that
\* of two sites of the list the one with the worse status has the strictly
\* larger size; lat, lng and label are those of the site and the kind is
\* 'infrastructure'.
C17_PaletteAndTiers ==
    (fn = "transformInfrastructure" /\ res.done) =>
        /\ Len(res.v) = Len(arg)
        /\ \A i \in 1..Len(arg) :
              /\ res.v[i].size = TierOf(arg[i].status)
              /\ res.v[i].color = PaletteOf(arg[i].status)
              /\ res.v[i].lat = arg[i].lat
              /\ res.v[i].lng = arg[i].lng
              /\ res.v[i].label = arg[i].name
              /\ res.v[i].kind = "infrastructure"
        /\ \A i, j \in 1..Len(arg) :
              (\/ arg[i].status = "Operational" /\ arg[j].status \in {"Degraded", "Offline"}
               \/ arg[i].status = "Degraded" /\ arg[j].status = "Offline")
              => res.v[i].size < res.v[j].size

\* a Degraded and an Offline site transformed together
C17_Witness ==
    /\ fn = "transformInfrastructure" /\ res.done
    /\ Len(arg) = 2
    /\ arg[1].status = "Degraded" /\ arg[2].status = "Offline"
    /\ res.v[1].size = 20 /\ res.v[2].size = 24
    /\ res.v[1].label = "St Mary"

PaletteOfCategory(category) ==
    CASE category = "Wildfire" -> "#fb923c" [] category = "Flood" -> "#22d3ee"
      [] category = "Earthquake" -> "#a855f7" [] category = "Storm" -> "#6366f1"

\* C18: for every hazard with an integer intensity in [0, 10] transformHazards
\* gives the size min(6, 2 + intensity / 2), which lies in [2, 6] and does not
\* decrease with the intensity, and the color of the hazard's category
\* (Wildfire #fb923c, Flood #22d3ee, Earthquake #a855f7, Storm #6366f1).
C18_ClampedLinearSize ==
    (fn = "transformHazards" /\ res.done) =>
        /\ Len(res.v) = Len(arg)
        /\ \A i \in 1..Len(arg) :
              arg[i].intensity \in 0..10 =>
                  /\ res.v[i].size = IF 20 + 5 * arg[i].intensity < 60
                                     THEN 20 + 5 * arg[i].intensity ELSE 60
                  /\ res.v[i].size >= 20 /\ res.v[i].size <= 60
                  /\ res.v[i].color = PaletteOfCategory(arg[i].category)
                  /\ res.v[i].kind = "hazard"
        /\ \A i, j \in 1..Len(arg) :
              (arg[i].intensity \in 0..10 /\ arg[j].intensity \in 0..10
               /\ arg[i].intensity <= arg[j].intensity)
              => res.v[i].size <= res.v[j].size

\* an intensity above 8, where the clamp acts, next to one below it
C18_Witness ==
    /\ fn = "transformHazards" /\ res.done
    /\ Len(arg) = 2
    /\ arg[1].intensity = 3 /\ arg[2].intensity = 10
    /\ res.v[1].size = 35 /\ res.v[2].size = 60
    /\ res.v[2].color = "#a855f7"

\* the ids of a list of records
IdsOf(list) == { list[i].id : i \in 1..Len(list) }

\* the sites the infrastructure adapter contributes according to C19: none when
\* its invocation failed
SitesContributed ==
    IF FailedInvocation("fetchInfrastructureSites") THEN <<>>
    ELSE mres["fetchInfrastructureSites"].out

\* C19: the list fetchLiveOverlay resolves to has one entry per hazard after
\* deduplication by id, followed by one entry per infrastructure site, a failed
\* adapter contributing no entry; every entry has a size and a color, and its
\* kind is 'hazard' or 'infrastructure' according to its origin.
C19_OneEntryPerRecord ==
    (call = "fetchLiveOverlay" /\ agg.state = "resolved") =>
        LET n == Cardinality(IdsOf(mres["fetchHazardEvents"].out))
        IN  /\ Len(agg.overlay) = n + Len(SitesContributed)
            /\ \A i \in 1..Len(agg.overlay) :
                  /\ {"size", "color"} \subseteq DOMAIN agg.overlay[i]
                  /\ agg.overlay[i].kind = IF i <= n THEN "hazard" ELSE "infrastructure"

SiteTypes == {"Hospital", "Power Plant", "Port", "Shelter"}

\* the type the tag priority hospital, power plant, harbour, shelter gives, ""
\* when no tag matches
TagPriority(tags) ==
    IF tags.amenity = "hospital" THEN "Hospital"
    ELSE IF tags.power = "plant" THEN "Power Plant"
    ELSE IF tags.harbour THEN "Port"
    ELSE IF tags.amenity = "shelter" THEN "Shelter"
    ELSE ""

\* an element of the payload that yields a site
YieldsSite(el) ==
    /\ el.k = "obj"
    /\ IsNumber(el.lat) /\ IsNumber(el.lon)
    /\ TagPriority(el.tags) # ""

\* the i-th smallest member of a set of indices
NthOf(S, i) == CHOOSE k \in S : Cardinality({ j \in S : j < k }) = i - 1

InfraDone == mpc["fetchInfrastructureSites"] = "done"
InfraOut == mres["fetchInfrastructureSites"].out

HazardsDone == mpc["fetchHazardEvents"] = "done"
HazardsOut == mres["fetchHazardEvents"].out

\* `${ev.id}` and `${disaster.disasterNumber}` of the items of a payload
EonetNativeIds ==
    { IF feeds.eonet.items[k].id # "" THEN feeds.eonet.items[k].id ELSE "undefined" :
        k \in { j \in 1..Len(feeds.eonet.items) : feeds.eonet.items[j].k = "obj" } }
FemaNativeIds ==
    { Interpolate(feeds.fema.items[k].disasterNumber) :
        k \in { j \in 1..Len(feeds.fema.items) : feeds.fema.items[j].k = "obj" } }

\* C21: every HazardEvent fetchHazardEvents returns has a category among
\* Storm, Flood, Wildfire, Earthquake, an intensity within [0, 10], and an id
\* made of the prefix of its source (eonet- for NASA EONET, fema- for FEMA)
\* followed by the native id of an item of that source's payload.
C21_HazardEventWellFormed ==
    HazardsDone =>
        \A i \in 1..Len(HazardsOut) :
            LET h == HazardsOut[i]
            IN  /\ h.category \in {"Storm", "Flood", "Wildfire", "Earthquake"}
                /\ h.intensity \in 0..10
                /\ \/ /\ h.source = "NASA EONET"
                      /\ \E n \in EonetNativeIds : h.id = "eonet-" \o n
                   \/ /\ h.source = "FEMA"
                      /\ \E n \in FemaNativeIds : h.id = "fema-" \o n

\* an EONET event with more than ten geometry entries next to a FEMA disaster
\* whose random intensity is the largest
C21_Witness ==
    /\ HazardsDone
    /\ Len(HazardsOut) = 2
    /\ HazardsOut[1].source = "NASA EONET" /\ HazardsOut[1].id = "eonet-E4"
    /\ HazardsOut[1].intensity = 10
    /\ HazardsOut[2].source = "FEMA" /\ HazardsOut[2].id = "fema-1"
    /\ HazardsOut[2].intensity = 7

\* the overlay is enabled and every fetch cycle of component c has completed
CyclesCompleted(c) ==
    /\ alive /\ enabled
    /\ runs[c] # <<>>
    /\ \A k \in 1..Len(runs[c]) : runs[c][k].st = "done"

\* component c has a fetch cycle in flight
CycleInFlight(c) == \E k \in 1..Len(runs[c]) : runs[c][k].st = "inflight"

\* C22: while the overlay stays enabled, a completed overlay fetch cycle is
\* eventually followed by the start of another one, unless the overlay is
\* disabled (or the components unmount) first.
C22_AutoRefresh ==
    \A c \in Comps : CyclesCompleted(c) ~> (CycleInFlight(c) \/ ~enabled \/ ~alive)

\* the step in which the await of cycle k throws and its catch and finally run
FailedJoin(k) ==
    /\ k <= Len(cycles)
    /\ ~cycles[k].joined
    /\ cycles[k].d = "fail" \/ cycles[k].e = "fail"
    /\ cycles'[k].joined

\* C23: a loadData cycle that fails (one of its climateAPI calls rejects)
\* leaves disasters and environmentalData exactly as the last cycle that
\* applied its results set them, and sets isLoading to false; the data changes
\* only when a cycle whose two calls resolved applies its own results.
C23_FailedCycleKeepsData ==
    [][/\ \A k \in 1..MaxCycles :
             FailedJoin(k) =>
                /\ disasters' = disasters
                /\ environmentalData' = environmentalData
                /\ timer = "active" => isLoading' = FALSE
       /\ (disasters' # disasters \/ environmentalData' # environmentalData) =>
             \E k \in 1..Len(cycles) :
                /\ cycles[k].d = "ok" /\ cycles[k].e = "ok"
                /\ ~cycles[k].joined /\ cycles'[k].joined
                /\ disasters' = k /\ environmentalData' = k]_vars

\* cycle 1 applied its results, then cycle 2 failed
C23_Witness ==
    /\ timer = "active"
    /\ Len(cycles) = 2
    /\ cycles[1].joined /\ cycles[1].d = "ok" /\ cycles[1].e = "ok"
    /\ cycles[2].joined /\ cycles[2].e = "fail"
    /\ disasters = 1 /\ environmentalData = 1
    /\ ~isLoading

\* some element of an array field is a number above the threshold
SomeExceeds(field, threshold) ==
    IsArray(field) /\ \E i \in 1..Len(field.a) :
        field.a[i].t = "num" /\ field.a[i].n > threshold

\* C24: isStormForecast returns true exactly when a daily or hourly wind gust
\* exceeds gustThreshold (default 20), or an hourly precipitation probability
\* exceeds precipProbThreshold (default 60), or a daily weather code lies in
\* 95..99; it returns false for a missing weather object.
C24_StormIffExceeded ==
    (fn = "isStormForecast" /\ res.done) =>
        LET w == arg.weather
            g == IF arg.options.gustThreshold = Undef THEN 20
                 ELSE arg.options.gustThreshold.n
            p == IF arg.options.precipProbThreshold = Undef THEN 60
                 ELSE arg.options.precipProbThreshold.n
        IN  res.v = /\ w.present
                    /\ \/ SomeExceeds(w.daily.wind_gusts_10m_max, g)
                       \/ SomeExceeds(w.hourly.wind_gusts_10m, g)
                       \/ SomeExceeds(w.hourly.precipitation_probability, p)
                       \/ \E i \in 1..Len(w.daily.weather_code.a) :
                             w.daily.weather_code.a[i].n \in 95..99

\* the fetch of the current run of component c is in flight and not abandoned
CurrentFetchInFlight(c) ==
    /\ alive /\ enabled
    /\ runs[c] # <<>>
    /\ runs[c][Len(runs[c])].mounted
    /\ runs[c][Len(runs[c])].st = "inflight"

\* C26: infraLoading (GlobeMap) and overlayLoading (App) are true only while
\* the fetchLiveOverlay call of the current, non-abandoned cycle is in flight;
\* in particular they are false whenever the overlay is disabled (the state of
\* unmounted components is not looked at).
C26_LoadingTracksFetch ==
    alive => \A c \in Comps : loading[c] => CurrentFetchInFlight(c)

\* the cycles both components started at the last enabling have settled
EnablingSettled ==
    /\ alive /\ enabled
    /\ \A c \in Comps : runs[c] # <<>> /\ runs[c][Len(runs[c])].st = "done"

\* C27: once the fetch cycles started by one enabling of the overlay have
\* settled, the counts of App's overlayData equal the numbers of points of kind
\* 'hazard' and 'infrastructure' of GlobeMap's infraPoints.
C27_PanelAgreesWithGlobe ==
    EnablingSettled =>
        /\ shown["App"].hazards = shown["GlobeMap"].hazards
        /\ shown["App"].infrastructure = shown["GlobeMap"].infrastructure

\* what C28 compares of a record: id, position and timestamp
HazardKey(h) == [id |-> h.id, lat |-> h.lat, lng |-> h.lng, at |-> h.detectedAt]
DisasterKey(d) == [id |-> d.id, lat |-> d.lat, lng |-> d.lng, at |-> d.timestamp]

\* C28: on the same EONET response the EONET block of fetchHazardEvents and
\* fetchEonetDisasters emit records for the same events, each with the same id,
\* the same lat / lng and the same timestamp.
C28_EonetAdaptersAgree ==
    (fn = "eonet" /\ res.done) =>
        { HazardKey(res.v.hazards[i]) : i \in 1..Len(res.v.hazards) }
            = { DisasterKey(res.v.disasters[i]) : i \in 1..Len(res.v.disasters) }

\* the adapters that synthesize an id with a fallback, and the hazard adapter
IdSynthesizers ==
    {"fetchEonetDisasters", "fetchUSGSEarthquakes", "fetchOpenAQ", "fetchHazardEvents"}

\* the native id of a payload item of adapter m, "" when the item has none
NativeId(m, item) ==
    IF item.k # "obj" THEN ""
    ELSE IF m = "fetchOpenAQ" THEN item.location ELSE item.id

\* two items of which one lacks a native id, or whose native ids differ
DistinctSourceRecords(m, a, b) ==
    NativeId(m, a) = "" \/ NativeId(m, b) = "" \/ NativeId(m, a) # NativeId(m, b)

\* adapter m returned one record per item of its payload, in payload order
OneRecordPerItem(m) ==
    /\ mpc[m] = "done"
    /\ Len(mres[m].out) = Len(ItemsOf(m))
    /\ m = "fetchHazardEvents" =>
          \A i \in 1..Len(mres[m].out) : mres[m].out[i].source = "NASA EONET"

\* C29: two records of one payload that have different native ids, or of which
\* one or both lack a native id, never receive the same synthesized id.
C29_IdSynthesisInjective ==
    \A m \in IdSynthesizers :
        OneRecordPerItem(m) =>
            \A i, j \in 1..Len(ItemsOf(m)) :
                (i # j /\ DistinctSourceRecords(m, ItemsOf(m)[i], ItemsOf(m)[j]))
                => mres[m].out[i].id # mres[m].out[j].id

\* C25: a polygon click on a degenerate vertex set moves no camera and selects
\* nothing; pointOfView is never called with a NaN or non-finite latitude or
\* longitude, and no exception leaves the click handler, whatever the geometry.
C25_NoCentroidNoNaN ==
    [][/\ pov' # <<>> => pov'[1].t = "num"
       /\ ~escaped'
       /\ (clicked' # <<>> /\ clicked'[1].degenerate) =>
             pov' = pov /\ selectedCountry' = selectedCountry]_vars

\* two antipodal vertices whose summed vector rounding left non-zero and whose
\* quotient is NaN: the country is selected and the camera was never moved
C25_Witness ==
    /\ clicked # <<>> /\ clicked[1].at = "notfinite"
    /\ selectedCountry # <<>>
    /\ Len(collect(selectedCountry[1].coordinates)) = 2
    /\ VectorSum(collect(selectedCountry[1].coordinates)) = <<0, 0, 0>>
    /\ pov = <<>>

\* C30: polarInfo never holds the weather of a request other than that of the
\* click that created it, its loading flag is not cleared while that click's
\* request is still in flight, and once the overlay is closed no response opens
\* it again.
C30_OnlyLatestPoleClick ==
    polarInfo # <<>> =>
        /\ polarInfo[1].current \in {0, polarInfo[1].click}
        /\ reqs[polarInfo[1].click] = "inflight" => polarInfo[1].loading

====
